---- MODULE Spec2Model ----
(***************************************************************************)
(* A model of the COSMIC music-player applet's controller layer:          *)
(*   music.rs  MusicController (session registry, extraction,              *)
(*             aggregation and Firefox dedup, volume chain)                *)
(*   audio.rs  AudioController (pactl listing parser, stream matching,     *)
(*             volume write)                                               *)
(*   config.rs ConfigManager (settings in memory and in the store)         *)
(*   app.rs    CosmicAppletMusic (message handlers, the Tasks they         *)
(*             return, album-art fetches)                                  *)
(*                                                                         *)
(* Strings that the code inspects (identities, mixer listing lines) are    *)
(* sequences of byte values; volumes are integers in hundredths            *)
(* (1.0 = 100), which is exact for every value the model uses.             *)
(***************************************************************************)
EXTENDS Integers, Sequences, FiniteSets, Bags, TLC

\* ------------------------------------------------------------------ bounds
\* the browser instances that can be on the bus
NumFirefox == 2

\* the largest session map the aggregation is applied to
MaxSessions == 3

\* the tracks a session with cover art plays in turn
NumTracks == 2

\* ------------------------------------------------------------ byte strings
\* "firefox"
FirefoxNeedle == <<102, 105, 114, 101, 102, 111, 120>>
\* "Firefox"
IdFirefox == <<70, 105, 114, 101, 102, 111, 120>>
\* "Spotify"
IdSpotify == <<83, 112, 111, 116, 105, 102, 121>>
\* "mpv"
IdMpv == <<109, 112, 118>>
\* "Rhythmbox": an identity no session of the model carries
IdAbsent == <<82, 104, 121, 116, 104, 109, 98, 111, 120>>
\* "Mozilla Firefox": a pattern that contains a stream name
IdMozillaFirefox == <<77, 111, 122, 105, 108, 108, 97, 32, 70, 105, 114, 101, 102, 111, 120>>
\* "Sink Input #"
SinkInputPrefix == <<83, 105, 110, 107, 32, 73, 110, 112, 117, 116, 32, 35>>
\* "application.name = "
AppNamePrefix == <<97, 112, 112, 108, 105, 99, 97, 116, 105, 111, 110, 46, 110, 97, 109, 101, 32, 61, 32>>
\* "application.name = \""
AppNameQuotedPrefix == <<97, 112, 112, 108, 105, 99, 97, 116, 105, 111, 110, 46, 110, 97, 109, 101, 32, 61, 32, 34>>
\* "\""
QuoteSuffix == <<34>>
\* "Volume:"
VolumePrefix == <<86, 111, 108, 117, 109, 101, 58>>

\* str::to_lowercase on ASCII bytes
LowerByte(c) == IF c >= 65 /\ c <= 90 THEN c + 32 ELSE c

ToLower(s) == [i \in 1..Len(s) |-> LowerByte(s[i])]

\* str::starts_with
StartsWith(s, p) == Len(p) <= Len(s) /\ SubSeq(s, 1, Len(p)) = p

\* str::ends_with
EndsWith(s, p) == Len(p) <= Len(s) /\ SubSeq(s, Len(s) - Len(p) + 1, Len(s)) = p

\* str::contains
Contains(s, p) == \E i \in 0..(Len(s) - Len(p)) : SubSeq(s, i + 1, i + Len(p)) = p

\* Ord for str: bytewise lexicographic comparison, a < b
StrLess(a, b) ==
    \E i \in 1..(Len(a) + 1) :
        /\ i <= Len(b)
        /\ SubSeq(a, 1, i - 1) = SubSeq(b, 1, i - 1)
        /\ (i = Len(a) + 1 \/ a[i] < b[i])

IsSpace(c) == c = 32 \/ c = 9

RECURSIVE TrimStart(_)
TrimStart(s) == IF s # <<>> /\ IsSpace(Head(s)) THEN TrimStart(Tail(s)) ELSE s

RECURSIVE TrimEnd(_)
TrimEnd(s) ==
    IF s # <<>> /\ IsSpace(s[Len(s)]) THEN TrimEnd(SubSeq(s, 1, Len(s) - 1)) ELSE s

\* str::trim
Trim(s) == TrimEnd(TrimStart(s))

\* Option<T>: the empty sequence is None, a one-element sequence is Some(x)
None == <<>>

Some(x) == <<x>>

IsSome(o) == o # <<>>

Unwrap(o) == o[1]

\* ----------------------------------------------------------------- status
Playing == "Playing"
Paused == "Paused"
Stopped == "Stopped"
PlaybackStatus == {Playing, Paused, Stopped}

\* --------------------------------------------------- the media-control bus
\* The bus name (player-name part) of a session: the application and, for a
\* browser, the instance.  A bus name belongs to one application, so it fixes
\* the identity, the metadata and the native volume of the session behind it.
FirefoxBusNames == {<<"firefox", i>> : i \in 1..NumFirefox}

BusNames == FirefoxBusNames \cup {<<"spotify", 0>>, <<"mpv", 0>>}

\* Player::identity
IdentityOf(b) ==
    CASE b[1] = "firefox" -> IdFirefox
      [] b[1] = "spotify" -> IdSpotify
      [] OTHER -> IdMpv

Identities == {IdentityOf(b) : b \in BusNames}

VARIABLE
    track               \* environment: the track the session with cover art is playing

\* the art url of a track's cover
CoverOf(t) ==
    CASE t = 0 -> "https://img/cover"
      [] t = 1 -> "https://img/cover2"
      [] OTHER -> "https://img/cover3"

\* Player::get_metadata of a live session: title, artists, art url; the art
\* url of the session with cover art is that of the track it is playing
MetadataOf(b) ==
    CASE b[1] = "firefox" ->
            [title |-> Some("Video"), artists |-> None, art_url |-> Some("https://img/tab")]
      [] b[1] = "spotify" ->
            [title |-> Some("Song"), artists |-> Some(<<"A", "B">>),
             art_url |-> Some(CoverOf(track))]
      [] OTHER -> [title |-> None, artists |-> None, art_url |-> None]

\* Metadata::default, what unwrap_or_default gives when the query errors
MetadataDefault == [title |-> None, artists |-> None, art_url |-> None]

\* Player::get_volume of a live session, in hundredths; the browser has no
\* native volume property
NativeVolumeOf(b) ==
    CASE b[1] = "firefox" -> None
      [] b[1] = "spotify" -> Some(80)
      [] OTHER -> Some(100)

Absent == "Absent"

\* a session handle (mpris::Player): the bus name it talks to and the identity
\* it read when it was created
Handle(b) == [bus_name |-> b, identity |-> IdentityOf(b)]

VARIABLES
    bus,                \* environment: bus name -> status of the session, or Absent
    player,             \* MusicController.player: Option<Player>
    discovered_players, \* MusicController.discovered_players: identity -> DiscoveredPlayer
    all_players,        \* MusicController.all_players: bus name -> Player
    sink_inputs,        \* AudioController.sink_inputs: index -> AudioSinkInput
    config_manager,     \* CosmicAppletMusic.config_manager: Option<ConfigManager>, by its app_config
    config_store,       \* environment: the "config" entry of the configuration store, if any
    player_info,        \* CosmicAppletMusic.player_info
    all_players_info,   \* CosmicAppletMusic.all_players_info
    album_art_handle,   \* CosmicAppletMusic.album_art_handle
    current_art_url,    \* CosmicAppletMusic.current_art_url
    player_album_arts,  \* CosmicAppletMusic.player_album_arts: bus name -> image handle
    messages,           \* the messages produced by Tasks and inputs that update() has not yet taken
    fetches,            \* the load_image_from_url futures that are running
    ret                 \* the last call: operation, inputs, result (for a message handler
                        \* the Task it returned), calls and commands issued

\* the applet's display state and the runtime's pending work
app_vars ==
    <<player_info, all_players_info, album_art_handle, current_art_url, player_album_arts,
      messages, fetches>>

vars ==
    <<bus, track, player, discovered_players, all_players, sink_inputs, config_manager, config_store,
      app_vars, ret>>

\* the sessions currently exposed on the bus
Exposed == {b \in DOMAIN bus : bus[b] # Absent}

\* ------------------------------------------------------ audio.rs: the mixer
\* lines of `pactl list sink-inputs` output
\* Sink Input #12
LineHeader12 ==
    <<83, 105, 110, 107, 32, 73, 110, 112, 117, 116, 32, 35, 49, 50>>

\* Sink Input #7
LineHeader7 ==
    <<83, 105, 110, 107, 32, 73, 110, 112, 117, 116, 32, 35, 55>>

\* Sink Input #x
LineHeaderBad ==
    <<83, 105, 110, 107, 32, 73, 110, 112, 117, 116, 32, 35, 120>>

\* <tab>Driver: PipeWire
LineDriver ==
    <<9, 68, 114, 105, 118, 101, 114, 58, 32, 80, 105, 112, 101, 87, 105, 114, 101>>

\* <tab>Volume: front-left: 42598 /  65% / -11.22 dB,   front-right: 65536 / 100%
LineVolume65 ==
    <<9, 86, 111, 108, 117, 109, 101, 58, 32, 102, 114, 111, 110, 116, 45, 108, 101, 102, 116, 58, 32, 52, 50, 53, 57, 56, 32, 47, 32, 32, 54, 53, 37, 32, 47, 32, 45, 49, 49, 46, 50, 50, 32, 100, 66, 44, 32, 32, 32, 102, 114, 111, 110, 116, 45, 114, 105, 103, 104, 116, 58, 32, 54, 53, 53, 51, 54, 32, 47, 32, 49, 48, 48, 37>>

\* <tab>Volume: mono: 117964 / 180%
LineVolume180 ==
    <<9, 86, 111, 108, 117, 109, 101, 58, 32, 109, 111, 110, 111, 58, 32, 49, 49, 55, 57, 54, 52, 32, 47, 32, 49, 56, 48, 37>>

\* <tab>Volume: (invalid)
LineVolumeMute ==
    <<9, 86, 111, 108, 117, 109, 101, 58, 32, 40, 105, 110, 118, 97, 108, 105, 100, 41>>

\* <tab><tab>application.name = "Firefox"
LineNameFirefox ==
    <<9, 9, 97, 112, 112, 108, 105, 99, 97, 116, 105, 111, 110, 46, 110, 97, 109, 101, 32, 61, 32, 34, 70, 105, 114, 101, 102, 111, 120, 34>>

\* <tab><tab>application.name = "spotify"
LineNameSpotify ==
    <<9, 9, 97, 112, 112, 108, 105, 99, 97, 116, 105, 111, 110, 46, 110, 97, 109, 101, 32, 61, 32, 34, 115, 112, 111, 116, 105, 102, 121, 34>>

\* <tab><tab>application.name = Firefox
LineNameUnquoted ==
    <<9, 9, 97, 112, 112, 108, 105, 99, 97, 116, 105, 111, 110, 46, 110, 97, 109, 101, 32, 61, 32, 70, 105, 114, 101, 102, 111, 120>>

\* what running `pactl list sink-inputs` can give: ok is FALSE when the
\* command cannot be run or exits nonzero, else lines is its stdout
PactlFailed == [ok |-> FALSE, lines |-> <<>>]

\* no stream is playing
ListingEmpty == [ok |-> TRUE, lines |-> <<>>]

\* one stream, the browser's
ListingFirefox ==
    [ok |-> TRUE, lines |-> <<LineHeader12, LineDriver, LineVolume65, LineNameFirefox>>]

\* the browser's stream, a record whose index does not parse, and a stream
\* whose name is not quoted and whose volume is above 150%
ListingMixed ==
    [ok |-> TRUE,
     lines |-> <<LineHeader12, LineVolume65, LineNameFirefox,
                 LineHeaderBad, LineNameSpotify,
                 LineHeader7, LineVolume180, LineNameUnquoted>>]

PactlOutputs == {PactlFailed, ListingEmpty, ListingFirefox, ListingMixed}

\* two records with the same index: the browser's stream, then a record with
\* no volume field
ListingRepeat ==
    [ok |-> TRUE,
     lines |-> <<LineHeader12, LineVolume65, LineNameFirefox,
                 LineHeader12, LineNameSpotify>>]

\* a stream above 150%, then a record whose volume field carries no percentage
ListingNoVolume ==
    [ok |-> TRUE,
     lines |-> <<LineDriver, LineHeader7, LineVolume180, LineNameUnquoted,
                 LineHeader12, LineVolumeMute, LineNameSpotify>>]

\* the outputs the mixer's own operations are exercised with
\* fields ahead of the first record-start line, a record with no field, a
\* record whose index does not parse and that has fields, a last record with
\* no field
ListingPreamble ==
    [ok |-> TRUE,
     lines |-> <<LineVolume65, LineNameSpotify, LineHeader7,
                 LineHeaderBad, LineVolume180, LineNameFirefox,
                 LineHeader12>>]

MixerListings == PactlOutputs \cup {ListingRepeat, ListingNoVolume, ListingPreamble}

IsDigit(c) == c >= 48 /\ c <= 57

RECURSIVE DigitsValue(_, _)
DigitsValue(s, acc) ==
    IF s = <<>> THEN acc ELSE DigitsValue(Tail(s), acc * 10 + (Head(s) - 48))

\* an optional sign followed by one or more decimal digits
IsDecimal(s, signs) ==
    LET d == IF s # <<>> /\ Head(s) \in signs THEN Tail(s) ELSE s
    IN  d # <<>> /\ \A i \in 1..Len(d) : IsDigit(d[i])

DecimalValue(s) ==
    IF Head(s) = 45 THEN 0 - DigitsValue(Tail(s), 0)
    ELSE IF Head(s) = 43 THEN DigitsValue(Tail(s), 0)
    ELSE DigitsValue(s, 0)

\* str::parse::<u32>().ok(); a text of up to nine digits is below u32::MAX, and
\* the model's listings carry no longer one
ParseU32(s) ==
    IF IsDecimal(s, {43}) /\ Len(s) <= 9 THEN Some(DecimalValue(s)) ELSE None

\* str::parse::<f64>().ok() on the percentage text; the model's listings
\* carry whole percentages, so the value is the signed decimal integer
ParseF64(s) == IF IsDecimal(s, {43, 45}) THEN Some(DecimalValue(s)) ELSE None

\* str::find(char): the 1-based position of the first occurrence, or 0
Find(s, c) ==
    IF \E i \in 1..Len(s) : s[i] = c
    THEN CHOOSE i \in 1..Len(s) : s[i] = c /\ \A j \in 1..(i - 1) : s[j] # c
    ELSE 0

\* str::rfind(char): the 1-based position of the last occurrence, or 0
RFind(s, c) ==
    IF \E i \in 1..Len(s) : s[i] = c
    THEN CHOOSE i \in 1..Len(s) : s[i] = c /\ \A j \in (i + 1)..Len(s) : s[j] # c
    ELSE 0

\* HashMap::insert
MapInsert(m, k, v) == (k :> v) @@ m

\* HashMap::new, HashMap::clear
EmptyMap == <<>>

AudioSinkInput(index, name, volume) ==
    [index |-> index, application_name |-> name, volume |-> volume]

\* the volume a record starts with, in hundredths (1.0)
DefaultSinkVolume == 100

\* the parser's locals before the first line
ParserStart ==
    [current_index |-> None, current_app_name |-> <<>>,
     current_volume |-> DefaultSinkVolume, sink_inputs |-> EmptyMap]

\* "Save previous entry if exists" and "Save last entry"
SaveEntry(st) ==
    IF IsSome(st.current_index)
    THEN MapInsert(st.sink_inputs, Unwrap(st.current_index),
                   AudioSinkInput(Unwrap(st.current_index), st.current_app_name,
                                  st.current_volume))
    ELSE st.sink_inputs

\* the application.name branch: the text between the quotes, or "" when the
\* value is not quoted
ParseAppName(line) ==
    IF StartsWith(line, AppNameQuotedPrefix)
       /\ EndsWith(SubSeq(line, Len(AppNameQuotedPrefix) + 1, Len(line)), QuoteSuffix)
    THEN SubSeq(line, Len(AppNameQuotedPrefix) + 1, Len(line) - 1)
    ELSE <<>>

\* the Volume: branch: the number before the first '%', divided by 100; the
\* volume is kept when there is no '%', no space before it or no number
ParseVolume(line, current) ==
    LET percent_pos == Find(line, 37)
        before_percent == SubSeq(line, 1, percent_pos - 1)
        last_space == RFind(before_percent, 32)
        percent == ParseF64(Trim(SubSeq(before_percent, last_space + 1,
                                        Len(before_percent))))
    IN  IF percent_pos # 0 /\ last_space # 0 /\ IsSome(percent)
        THEN Unwrap(percent)
        ELSE current

\* the loop body with current_volume carried over a record-start line
ParseLineKeepVolume(st, raw) ==
    LET line == Trim(raw)
    IN  IF StartsWith(line, SinkInputPrefix)
        THEN [current_index |-> ParseU32(SubSeq(line, Len(SinkInputPrefix) + 1, Len(line))),
              current_app_name |-> <<>>,
              current_volume |-> st.current_volume,
              sink_inputs |-> SaveEntry(st)]
        ELSE IF StartsWith(line, AppNamePrefix)
        THEN [st EXCEPT !.current_app_name = ParseAppName(line)]
        ELSE IF StartsWith(line, VolumePrefix)
        THEN [st EXCEPT !.current_volume = ParseVolume(line, st.current_volume)]
        ELSE st

\* the loop body with current_app_name carried over a record-start line
ParseLineKeepName(st, raw) ==
    LET line == Trim(raw)
    IN  IF StartsWith(line, SinkInputPrefix)
        THEN [current_index |-> ParseU32(SubSeq(line, Len(SinkInputPrefix) + 1, Len(line))),
              current_app_name |-> st.current_app_name,
              current_volume |-> DefaultSinkVolume,
              sink_inputs |-> SaveEntry(st)]
        ELSE IF StartsWith(line, AppNamePrefix)
        THEN [st EXCEPT !.current_app_name = ParseAppName(line)]
        ELSE IF StartsWith(line, VolumePrefix)
        THEN [st EXCEPT !.current_volume = ParseVolume(line, st.current_volume)]
        ELSE st

\* one iteration of the loop over output_str.lines()
ParseLine(st, raw) ==
    LET line == Trim(raw)
    IN  IF StartsWith(line, SinkInputPrefix)
        THEN [current_index |-> ParseU32(SubSeq(line, Len(SinkInputPrefix) + 1, Len(line))),
              current_app_name |-> <<>>,
              current_volume |-> DefaultSinkVolume,
              sink_inputs |-> SaveEntry(st)]
        ELSE IF StartsWith(line, AppNamePrefix)
        THEN [st EXCEPT !.current_app_name = ParseAppName(line)]
        ELSE IF StartsWith(line, VolumePrefix)
        THEN [st EXCEPT !.current_volume = ParseVolume(line, st.current_volume)]
        ELSE st

RECURSIVE ParseLines(_, _)
ParseLines(st, lines) ==
    IF lines = <<>> THEN st ELSE ParseLines(ParseLine(st, Head(lines)), Tail(lines))

\* the map the parser builds from a listing: the loop, then "Save last entry"
ParseListing(lines) == SaveEntry(ParseLines(ParserStart, lines))

\* ParseListing on the outputs the machine draws, computed once
ParsedOutputs == [o \in PactlOutputs |-> ParseListing(o.lines)]

\* the refresh taking the lock and clearing the map before it runs pactl
RefreshSinkInputsClearFirst(stored, output) ==
    IF ~output.ok
    THEN [ok |-> FALSE, sink_inputs |-> EmptyMap]
    ELSE [ok |-> TRUE, sink_inputs |-> ParseListing(output.lines)]

\* the refresh without sink_inputs.clear(): the listing is merged into the map
RefreshSinkInputsNoClear(stored, output) ==
    IF ~output.ok
    THEN [ok |-> FALSE, sink_inputs |-> stored]
    ELSE [ok |-> TRUE,
          sink_inputs |-> SaveEntry(ParseLines([ParserStart EXCEPT !.sink_inputs = stored],
                                               output.lines))]

\* AudioController::refresh_sink_inputs: the result and the stored map after it
RefreshSinkInputs(stored, output) ==
    IF ~output.ok
    THEN [ok |-> FALSE, sink_inputs |-> stored]
    ELSE [ok |-> TRUE,
          sink_inputs |-> IF output \in PactlOutputs THEN ParsedOutputs[output]
                          ELSE ParseListing(output.lines)]

\* the condition in one direction only: the stream's name contains the pattern
NameMatchesOneWay(application_name, app_name_pattern) ==
    Contains(ToLower(application_name), ToLower(app_name_pattern))

\* the condition of AudioController::find_sink_input_by_name
NameMatches(application_name, app_name_pattern) ==
    LET pattern_lower == ToLower(app_name_pattern)
        app_name_lower == ToLower(application_name)
    IN  Contains(app_name_lower, pattern_lower) \/ Contains(pattern_lower, app_name_lower)

\* AudioController::find_sink_input_by_name: the first stream that matches, in
\* the order values_order in which sink_inputs.values() iterates the map
FindSinkInputByName(stored, values_order, app_name_pattern) ==
    LET hits == {k \in 1..Len(values_order) :
                    NameMatches(stored[values_order[k]].application_name, app_name_pattern)}
    IN  IF hits = {} THEN None
        ELSE Some(stored[values_order[CHOOSE k \in hits : \A j \in hits : k <= j]])

\* a clamp with no upper end
ClampLow(v, lo, hi) == IF v < lo THEN lo ELSE v

\* f64::clamp
Clamp(v, lo, hi) == IF v < lo THEN lo ELSE IF v > hi THEN hi ELSE v

MaxSinkVolume == 150

\* the hundredths k for which the f64 product (k / 100) * 100.0 falls just
\* below k, so that `as u32` gives k - 1
TruncatesDown == {29, 57, 58, 113, 114, 115, 116}

\* (clamped_volume * 100.0) as u32
VolumePercent(volume) ==
    LET clamped_volume == Clamp(volume, 0, MaxSinkVolume)
    IN  IF clamped_volume \in TruncatesDown THEN clamped_volume - 1 ELSE clamped_volume

\* AudioController::set_sink_input_volume: the command it runs and its result;
\* run_ok is FALSE when pactl cannot be run or exits nonzero
SetSinkInputVolume(index, volume, run_ok) ==
    [ok |-> run_ok,
     cmd |-> [name |-> "pactl set-sink-input-volume", index |-> index,
              percent |-> VolumePercent(volume)]]

\* ------------------------------------------------ music.rs: MusicController
\* every order in which a hash map (or the bus) can enumerate the set S
RECURSIVE Orders(_)
Orders(S) ==
    IF S = {} THEN {<<>>}
    ELSE UNION {{<<x>> \o rest : rest \in Orders(S \ {x})} : x \in S}

\* String::new as a bus name
NoBusName == <<"", 0>>

DefaultVolume == 50

\* PlayerInfo::default
PlayerInfoDefault ==
    [title |-> "No music playing", artist |-> "", status |-> Stopped,
     volume |-> DefaultVolume, art_url |-> None, bus_name |-> NoBusName,
     identity |-> <<>>, can_control_volume |-> TRUE]

\* MusicController::new: AudioController::new and connect both return Ok, so
\* the controller always holds an audio controller
AudioControllerPresent == TRUE

\* a query on a session handle errors when the session has left the bus
Live(b, h) == b[h.bus_name] # Absent

\* Player::get_metadata
GetMetadata(b, h) == IF Live(b, h) THEN Some(MetadataOf(h.bus_name)) ELSE None

\* Player::get_playback_status
GetPlaybackStatus(b, h) == IF Live(b, h) THEN Some(b[h.bus_name]) ELSE None

\* Player::get_volume
GetVolume(b, h) == IF Live(b, h) THEN NativeVolumeOf(h.bus_name) ELSE None

UnwrapOr(o, d) == IF IsSome(o) THEN Unwrap(o) ELSE d

\* artists.join(", ")
RECURSIVE Join(_)
Join(artists) ==
    IF artists = <<>> THEN ""
    ELSE IF Len(artists) = 1 THEN artists[1]
    ELSE artists[1] \o ", " \o Join(Tail(artists))

\* the snapshot with "Unknown" as the artist's default
ExtractArtistUnknown(b, h, bus_name, sinks, values_order) ==
    LET metadata == UnwrapOr(GetMetadata(b, h), MetadataDefault)
        status == UnwrapOr(GetPlaybackStatus(b, h), Stopped)
        native == UnwrapOr(GetVolume(b, h), DefaultVolume)
        sink_input == FindSinkInputByName(sinks, values_order, h.identity)
    IN  [title |-> UnwrapOr(metadata.title, "Unknown"),
         artist |-> IF IsSome(metadata.artists) THEN Join(Unwrap(metadata.artists))
                    ELSE "Unknown",
         status |-> status,
         volume |-> IF IsSome(sink_input) THEN Unwrap(sink_input).volume ELSE native,
         art_url |-> metadata.art_url,
         bus_name |-> bus_name,
         identity |-> h.identity,
         can_control_volume |-> TRUE]

\* the snapshot with the mixer consulted only when the native read failed
ExtractNativeFirst(b, h, bus_name, sinks, values_order) ==
    LET metadata == UnwrapOr(GetMetadata(b, h), MetadataDefault)
        status == UnwrapOr(GetPlaybackStatus(b, h), Stopped)
        sink_input == FindSinkInputByName(sinks, values_order, h.identity)
    IN  [title |-> UnwrapOr(metadata.title, "Unknown"),
         artist |-> IF IsSome(metadata.artists) THEN Join(Unwrap(metadata.artists))
                    ELSE "Unknown Artist",
         status |-> status,
         volume |-> IF IsSome(GetVolume(b, h)) THEN Unwrap(GetVolume(b, h))
                    ELSE IF IsSome(sink_input) THEN Unwrap(sink_input).volume
                    ELSE DefaultVolume,
         art_url |-> metadata.art_url,
         bus_name |-> bus_name,
         identity |-> h.identity,
         can_control_volume |-> TRUE]

\* the snapshot with volume control offered only where a volume can be read,
\* from the session or from a mixer stream
ExtractVolumeReadable(b, h, bus_name, sinks, values_order) ==
    LET sink_input == FindSinkInputByName(sinks, values_order, h.identity)
    IN  [ExtractNativeFirst(b, h, bus_name, sinks, values_order) EXCEPT
            !.volume = IF IsSome(sink_input) THEN Unwrap(sink_input).volume
                       ELSE UnwrapOr(GetVolume(b, h), DefaultVolume),
            !.can_control_volume = IsSome(sink_input) \/ IsSome(GetVolume(b, h))]

\* the body shared by get_player_info and the loop of get_all_players_info:
\* the snapshot of the session behind handle h, filed under bus_name;
\* sinks and values_order are the mixer's stored map and its iteration order
Extract(b, h, bus_name, sinks, values_order) ==
    LET metadata == UnwrapOr(GetMetadata(b, h), MetadataDefault)
        status == UnwrapOr(GetPlaybackStatus(b, h), Stopped)
        native == UnwrapOr(GetVolume(b, h), DefaultVolume)
        sink_input == IF AudioControllerPresent
                      THEN FindSinkInputByName(sinks, values_order, h.identity)
                      ELSE None
    IN  [title |-> UnwrapOr(metadata.title, "Unknown"),
         artist |-> IF IsSome(metadata.artists) THEN Join(Unwrap(metadata.artists))
                    ELSE "Unknown Artist",
         status |-> status,
         volume |-> IF IsSome(sink_input) THEN Unwrap(sink_input).volume ELSE native,
         art_url |-> metadata.art_url,
         bus_name |-> bus_name,
         identity |-> h.identity,
         can_control_volume |-> TRUE]

\* MusicController::get_player_info: the snapshot and the mixer map after the
\* refresh it makes
GetPlayerInfo(selected, b, stored, output, values_order) ==
    IF ~IsSome(selected)
    THEN [info |-> PlayerInfoDefault, sink_inputs |-> stored]
    ELSE LET sinks == IF AudioControllerPresent
                      THEN RefreshSinkInputs(stored, output).sink_inputs
                      ELSE stored
         IN  [info |-> Extract(b, Unwrap(selected), Unwrap(selected).bus_name,
                               sinks, values_order),
              sink_inputs |-> sinks]

\* status_order with the first two arms exchanged
StatusOrderSwapped(status) ==
    CASE status = Playing -> 1
      [] status = Paused -> 0
      [] OTHER -> 2

\* the status_order closure of the Firefox dedup
StatusOrder(status) ==
    CASE status = Playing -> 0
      [] status = Paused -> 1
      [] OTHER -> 2

\* the comparator of firefox_players.sort_by: a goes before b
StatusBefore(a, b) == StatusOrder(a.status) < StatusOrder(b.status)

\* the comparator without to_lowercase
IdentityBeforeRaw(a, b) == StrLess(a.identity, b.identity)

\* the comparator of players_info.sort_by: a goes before b
IdentityBefore(a, b) == StrLess(ToLower(a.identity), ToLower(b.identity))

\* the position at which a stable sort puts x into the sorted list: before the
\* first element that must come after x
RECURSIVE InsertByStatus(_, _)
InsertByStatus(sorted, x) ==
    IF sorted = <<>> THEN <<x>>
    ELSE IF StatusBefore(x, Head(sorted)) THEN <<x>> \o sorted
    ELSE <<Head(sorted)>> \o InsertByStatus(Tail(sorted), x)

\* firefox_players.sort_by(status order): slice::sort_by is stable
RECURSIVE SortByStatus(_)
SortByStatus(list) ==
    IF list = <<>> THEN <<>>
    ELSE InsertByStatus(SortByStatus(SubSeq(list, 1, Len(list) - 1)), list[Len(list)])

RECURSIVE InsertByIdentity(_, _)
InsertByIdentity(sorted, x) ==
    IF sorted = <<>> THEN <<x>>
    ELSE IF IdentityBefore(x, Head(sorted)) THEN <<x>> \o sorted
    ELSE <<Head(sorted)>> \o InsertByIdentity(Tail(sorted), x)

\* players_info.sort_by(lower-cased identity): slice::sort_by is stable
RECURSIVE SortByIdentity(_)
SortByIdentity(list) ==
    IF list = <<>> THEN <<>>
    ELSE InsertByIdentity(SortByIdentity(SubSeq(list, 1, Len(list) - 1)), list[Len(list)])

\* identity.to_lowercase().contains("firefox")
IsFirefox(info) == Contains(ToLower(info.identity), FirefoxNeedle)

\* the two lists the loop pushes to, each in iteration order
Partition(list, keep_firefox) ==
    SelectSeq(list, LAMBDA info : IsFirefox(info) = keep_firefox)

\* the dedup without the sort: the first Firefox entry in iteration order kept
DedupFirefoxUnsorted(firefox_players) ==
    IF firefox_players = <<>> THEN <<>>
    ELSE <<firefox_players[1]>>

\* "Deduplicate Firefox": the Firefox entries sorted by status, the first kept
DedupFirefox(firefox_players) ==
    IF firefox_players = <<>> THEN <<>>
    ELSE <<SortByStatus(firefox_players)[1]>>

\* the per-session snapshots in the order iter_order of all_players.iter()
Extracted(sessions, b, sinks, values_order, iter_order) ==
    [k \in 1..Len(iter_order) |->
        Extract(b, sessions[iter_order[k]], iter_order[k], sinks, values_order)]

\* the tail with the Firefox entry never pushed back
AggregateWithoutFirefox(extracted) ==
    SortByIdentity(Partition(extracted, FALSE))

\* the tail of get_all_players_info: partition, dedup, push, final sort
Aggregate(extracted) ==
    SortByIdentity(Partition(extracted, FALSE) \o DedupFirefox(Partition(extracted, TRUE)))

\* MusicController::get_all_players_info: the list and the mixer map after the
\* refresh it makes
GetAllPlayersInfo(sessions, b, stored, output, values_order, iter_order) ==
    LET sinks == IF AudioControllerPresent
                 THEN RefreshSinkInputs(stored, output).sink_inputs
                 ELSE stored
    IN  [list |-> Aggregate(Extracted(sessions, b, sinks, values_order, iter_order)),
         sink_inputs |-> sinks]

DiscoveredPlayer(identity, is_active) == [identity |-> identity, is_active |-> is_active]

\* the loop of discover_all_players over the enumerated sessions
RECURSIVE DiscoverLoop(_, _, _, _)
DiscoverLoop(players, b, discovered, sessions) ==
    IF players = <<>> THEN [discovered_players |-> discovered, all_players |-> sessions]
    ELSE LET p == Handle(Head(players))
             is_active == UnwrapOr(GetPlaybackStatus(b, p), Stopped) = Playing
         IN  DiscoverLoop(Tail(players), b,
                          MapInsert(discovered, p.identity,
                                    DiscoveredPlayer(p.identity, is_active)),
                          MapInsert(sessions, p.bus_name, p))

\* discover_all_players without the two clear() calls: the pass merges into
\* the maps it finds
DiscoverAllPlayersNoClear(finder_ok, found, b, discovered, sessions) ==
    IF ~finder_ok
    THEN [ok |-> FALSE, discovered_players |-> discovered, all_players |-> sessions]
    ELSE IF IsSome(found)
    THEN [ok |-> TRUE] @@ DiscoverLoop(Unwrap(found), b, discovered, sessions)
    ELSE [ok |-> TRUE, discovered_players |-> discovered, all_players |-> sessions]

\* MusicController::discover_all_players.  finder_ok: PlayerFinder::new
\* succeeded; found: the result of find_all, None for an error, else the
\* sessions in enumeration order
DiscoverAllPlayers(finder_ok, found, b, discovered, sessions) ==
    IF ~finder_ok
    THEN [ok |-> FALSE, discovered_players |-> discovered, all_players |-> sessions]
    ELSE IF IsSome(found)
    THEN [ok |-> TRUE] @@ DiscoverLoop(Unwrap(found), b, EmptyMap, EmptyMap)
    ELSE [ok |-> TRUE, discovered_players |-> EmptyMap, all_players |-> EmptyMap]

\* find_active_player clearing the handle when no session is active
FindActivePlayerClear(finder_ok, active, selected) ==
    IF ~finder_ok THEN [ok |-> FALSE, player |-> selected]
    ELSE IF IsSome(active) THEN [ok |-> TRUE, player |-> Some(Handle(Unwrap(active)))]
    ELSE [ok |-> TRUE, player |-> None]

\* MusicController::find_active_player.  active: the result of find_active,
\* None for an error (no session, or the query failed)
FindActivePlayer(finder_ok, active, selected) ==
    IF ~finder_ok THEN [ok |-> FALSE, player |-> selected]
    ELSE IF IsSome(active) THEN [ok |-> TRUE, player |-> Some(Handle(Unwrap(active)))]
    ELSE [ok |-> TRUE, player |-> selected]

\* the loop of find_specific_player: the first enumerated session whose
\* identity equals player_name
FirstWithIdentity(players, player_name) ==
    LET hits == {k \in 1..Len(players) : IdentityOf(players[k]) = player_name}
    IN  IF hits = {} THEN None
        ELSE Some(Handle(players[CHOOSE k \in hits : \A j \in hits : k <= j]))

\* MusicController::find_specific_player
FindSpecificPlayer(finder_ok, found, player_name, selected) ==
    IF ~finder_ok THEN [ok |-> FALSE, player |-> selected]
    ELSE IF IsSome(found) /\ IsSome(FirstWithIdentity(Unwrap(found), player_name))
    THEN [ok |-> TRUE, player |-> FirstWithIdentity(Unwrap(found), player_name)]
    ELSE [ok |-> TRUE, player |-> None]

\* MusicController::get_discovered_players
GetDiscoveredPlayers(discovered) == {discovered[i] : i \in DOMAIN discovered}

\* ----------------------------------------------------- the volume chain
MprisSetVolume(h, volume) ==
    [name |-> "Player::set_volume", target |-> h.bus_name, value |-> volume]

PactlList == [name |-> "pactl list sink-inputs", target |-> <<"sink-input", 0>>, value |-> 0]

PactlSetVolume(cmd) ==
    [name |-> cmd.name, target |-> <<"sink-input", cmd.index>>, value |-> cmd.percent]

\* the chain reporting a missing mixer stream as an error
VolumeChainStrict(h, volume, native_ok, stored, output, values_order, run_ok) ==
    IF native_ok
    THEN [ok |-> TRUE, cmds |-> <<MprisSetVolume(h, volume)>>, sink_inputs |-> stored]
    ELSE LET sinks == RefreshSinkInputs(stored, output).sink_inputs
             sink_input == FindSinkInputByName(sinks, values_order, h.identity)
             set == SetSinkInputVolume(Unwrap(sink_input).index, volume, run_ok)
         IN  IF IsSome(sink_input)
             THEN [ok |-> set.ok,
                   cmds |-> <<MprisSetVolume(h, volume), PactlList, PactlSetVolume(set.cmd)>>,
                   sink_inputs |-> sinks]
             ELSE [ok |-> FALSE,
                   cmds |-> <<MprisSetVolume(h, volume), PactlList>>,
                   sink_inputs |-> sinks]

\* the chain with the mixer's error dropped (`let _ =` in place of `?`)
VolumeChainSwallow(h, volume, native_ok, stored, output, values_order, run_ok) ==
    IF native_ok
    THEN [ok |-> TRUE, cmds |-> <<MprisSetVolume(h, volume)>>, sink_inputs |-> stored]
    ELSE LET sinks == RefreshSinkInputs(stored, output).sink_inputs
             sink_input == FindSinkInputByName(sinks, values_order, h.identity)
             set == SetSinkInputVolume(Unwrap(sink_input).index, volume, run_ok)
         IN  IF IsSome(sink_input)
             THEN [ok |-> TRUE,
                   cmds |-> <<MprisSetVolume(h, volume), PactlList, PactlSetVolume(set.cmd)>>,
                   sink_inputs |-> sinks]
             ELSE [ok |-> TRUE,
                   cmds |-> <<MprisSetVolume(h, volume), PactlList>>,
                   sink_inputs |-> sinks]

\* the chain refreshing the mixer map before it tries the native call
VolumeChainRefreshFirst(h, volume, native_ok, stored, output, values_order, run_ok) ==
    LET sinks == RefreshSinkInputs(stored, output).sink_inputs
        sink_input == FindSinkInputByName(sinks, values_order, h.identity)
        set == SetSinkInputVolume(Unwrap(sink_input).index, volume, run_ok)
    IN  IF native_ok
        THEN [ok |-> TRUE, cmds |-> <<PactlList, MprisSetVolume(h, volume)>>,
              sink_inputs |-> sinks]
        ELSE IF IsSome(sink_input)
        THEN [ok |-> set.ok,
              cmds |-> <<PactlList, MprisSetVolume(h, volume), PactlSetVolume(set.cmd)>>,
              sink_inputs |-> sinks]
        ELSE [ok |-> TRUE,
              cmds |-> <<PactlList, MprisSetVolume(h, volume)>>,
              sink_inputs |-> sinks]

\* the body shared by set_volume and set_volume_player once a session handle
\* is at hand.  native_ok: Player::set_volume returned Ok; output: what the
\* mixer listing gives; values_order: the iteration order of the refreshed
\* map; run_ok: the mixer's set command succeeded.
\* Gives the result, the commands issued in order, and the mixer map.
VolumeChain(h, volume, native_ok, stored, output, values_order, run_ok) ==
    IF native_ok
    THEN [ok |-> TRUE, cmds |-> <<MprisSetVolume(h, volume)>>, sink_inputs |-> stored]
    ELSE IF ~AudioControllerPresent
    THEN [ok |-> TRUE, cmds |-> <<MprisSetVolume(h, volume)>>, sink_inputs |-> stored]
    ELSE LET sinks == RefreshSinkInputs(stored, output).sink_inputs
             sink_input == FindSinkInputByName(sinks, values_order, h.identity)
             set == SetSinkInputVolume(Unwrap(sink_input).index, volume, run_ok)
         IN  IF IsSome(sink_input)
             THEN [ok |-> set.ok,
                   cmds |-> <<MprisSetVolume(h, volume), PactlList, PactlSetVolume(set.cmd)>>,
                   sink_inputs |-> sinks]
             ELSE [ok |-> TRUE,
                   cmds |-> <<MprisSetVolume(h, volume), PactlList>>,
                   sink_inputs |-> sinks]

\* MusicController::set_volume
SetVolume(selected, volume, native_ok, stored, output, values_order, run_ok) ==
    IF IsSome(selected)
    THEN VolumeChain(Unwrap(selected), volume, native_ok, stored, output, values_order, run_ok)
    ELSE [ok |-> TRUE, cmds |-> <<>>, sink_inputs |-> stored]

\* MusicController::set_volume_player
SetVolumePlayer(sessions, bus_name, volume, native_ok, stored, output, values_order, run_ok) ==
    IF bus_name \in DOMAIN sessions
    THEN VolumeChain(sessions[bus_name], volume, native_ok, stored, output, values_order,
                     run_ok)
    ELSE [ok |-> TRUE, cmds |-> <<>>, sink_inputs |-> stored]

\* ------------------------------------------------------------ the machine
\* the volumes a caller asks for, in hundredths: below the range, a value
\* whose percentage truncates down, above the mixer's cap
Targets == {-50, 29, 175}

\* the names a caller selects: every identity, and one no session carries
Names == Identities \cup {IdAbsent}

\* what find_all can give: an error, or the exposed sessions in some order
FindAllResults == {None} \cup {Some(o) : o \in Orders(Exposed)}

\* what find_active can give: an error, or one of the exposed sessions
FindActiveResults == {None} \cup {Some(b) : b \in Exposed}

\* no call has returned since the caller last took a result
NoCall == [op |-> "none"]

\* CosmicAppletMusic::default for the display fields, with no message pending
\* and no fetch running
InitAppVars ==
    /\ player_info = PlayerInfoDefault
    /\ all_players_info = <<>>
    /\ album_art_handle = None
    /\ current_art_url = None
    /\ player_album_arts = EmptyMap
    /\ messages = EmptyBag
    /\ fetches = EmptyBag

\* the state after MusicController::new, with no session on the bus
Init ==
    /\ bus = [b \in BusNames |-> Absent]
    /\ player = None
    /\ track = 0
    /\ discovered_players = EmptyMap
    /\ all_players = EmptyMap
    /\ sink_inputs = EmptyMap
    /\ config_manager = None
    /\ config_store = None
    /\ InitAppVars
    /\ ret = NoCall

\* the environment: a session appears, quits, or changes its playback status
BusChange ==
    \E b \in DOMAIN bus, s \in PlaybackStatus \cup {Absent} :
        /\ bus[b] # s
        /\ bus' = [bus EXCEPT ![b] = s]
        /\ ret' = NoCall
        /\ UNCHANGED <<track, player, discovered_players, all_players, sink_inputs, config_manager, config_store, app_vars>>

\* the environment, playback left aside: a session appears (stopped) or quits
BusPresenceChange ==
    \E b \in DOMAIN bus :
        /\ bus' = [bus EXCEPT ![b] = IF bus[b] = Absent THEN Stopped ELSE Absent]
        /\ ret' = NoCall
        /\ UNCHANGED <<track, player, discovered_players, all_players, sink_inputs, config_manager, config_store, app_vars>>

\* the environment: the session with cover art moves on to its next track
TrackChange ==
    /\ track' = (track + 1) % NumTracks
    /\ ret' = NoCall
    /\ UNCHANGED <<bus, player, discovered_players, all_players, sink_inputs, config_manager, config_store, app_vars>>

\* ------------------------------------- view_window.rs: the player card
\* max_length of view_player_card
MaxLength == 25

\* the bytes 0x80..0xBF continue a character of a UTF-8 string
IsContinuation(byte) == byte >= 128 /\ byte <= 191

\* str::is_char_boundary, index counted in bytes from 0
IsCharBoundary(s, index) ==
    \/ index = 0
    \/ index = Len(s)
    \/ index < Len(s) /\ ~IsContinuation(s[index + 1])

\* `if s.len() > max_length { format!("{}...", &s[0..max_length]) } else
\* { s.clone() }` on the UTF-8 bytes of s: len() counts bytes, and the slice
\* panics when byte max_length is not a character boundary (ok is FALSE)
Truncate(s) ==
    IF Len(s) > MaxLength
    THEN IF IsCharBoundary(s, MaxLength)
         THEN [ok |-> TRUE, text |-> SubSeq(s, 1, MaxLength) \o <<46, 46, 46>>]
         ELSE [ok |-> FALSE, text |-> <<>>]
    ELSE [ok |-> TRUE, text |-> s]

\* the texts of view_player_card: the title first, then the artist; a panic
\* ends the rendering
ViewPlayerCard(card) ==
    LET title == Truncate(card.title)
        artist == Truncate(card.artist)
    IN  IF ~title.ok THEN [ok |-> FALSE, title |-> <<>>, artist |-> <<>>]
        ELSE IF ~artist.ok THEN [ok |-> FALSE, title |-> title.text, artist |-> <<>>]
        ELSE [ok |-> TRUE, title |-> title.text, artist |-> artist.text]

\* view_players_list draws the card of a listed player
CallViewPlayerCard ==
    /\ ret = NoCall
    /\ \E k \in 1..Len(all_players_info) :
        \E r \in {ViewPlayerCard(all_players_info[k])} :
            /\ ret' = [op |-> "view_player_card", card |-> all_players_info[k],
                       ok |-> r.ok, title |-> r.title, artist |-> r.artist]
            /\ UNCHANGED <<track, bus, player, discovered_players, all_players, sink_inputs, config_manager, config_store, app_vars>>

\* the caller takes the result of the call
Return ==
    /\ ret # NoCall
    /\ ret' = NoCall
    /\ UNCHANGED <<track, bus, player, discovered_players, all_players, sink_inputs, config_manager, config_store, app_vars>>

CallDiscoverAllPlayers ==
    /\ ret = NoCall
    /\ \E finder_ok \in BOOLEAN, found \in FindAllResults :
        \E r \in {DiscoverAllPlayers(finder_ok, found, bus, discovered_players, all_players)} :
            /\ discovered_players' = r.discovered_players
            /\ all_players' = r.all_players
            /\ ret' = [op |-> "discover_all_players", finder_ok |-> finder_ok,
                       found_ok |-> IsSome(found), ok |-> r.ok]
            /\ UNCHANGED <<track, bus, player, sink_inputs, config_manager, config_store, app_vars>>

CallFindActivePlayer ==
    /\ ret = NoCall
    /\ \E finder_ok \in BOOLEAN, active \in FindActiveResults :
        \E r \in {FindActivePlayer(finder_ok, active, player)} :
            /\ player' = r.player
            /\ ret' = [op |-> "find_active_player", finder_ok |-> finder_ok,
                       found_ok |-> IsSome(active), ok |-> r.ok]
            /\ UNCHANGED <<track, bus, discovered_players, all_players, sink_inputs, config_manager, config_store, app_vars>>

CallFindSpecificPlayer ==
    /\ ret = NoCall
    /\ \E player_name \in Names, finder_ok \in BOOLEAN, found \in FindAllResults :
        \E r \in {FindSpecificPlayer(finder_ok, found, player_name, player)} :
            /\ player' = r.player
            /\ ret' = [op |-> "find_specific_player", player_name |-> player_name,
                       finder_ok |-> finder_ok, found_ok |-> IsSome(found), ok |-> r.ok]
            /\ UNCHANGED <<track, bus, discovered_players, all_players, sink_inputs, config_manager, config_store, app_vars>>

\* the orders in which the mixer map iterates once refreshed from output
ValuesOrders(output) == Orders(DOMAIN RefreshSinkInputs(sink_inputs, output).sink_inputs)

CallGetPlayerInfo ==
    /\ ret = NoCall
    /\ \E output \in PactlOutputs :
        \E values_order \in ValuesOrders(output) :
            \E r \in {GetPlayerInfo(player, bus, sink_inputs, output, values_order)} :
                /\ sink_inputs' = r.sink_inputs
                /\ ret' = [op |-> "get_player_info", out |-> r.info]
                /\ UNCHANGED <<track, bus, player, discovered_players, all_players, config_manager, config_store, app_vars>>

CallGetAllPlayersInfo ==
    /\ ret = NoCall
    /\ \E output \in PactlOutputs, iter_order \in Orders(DOMAIN all_players) :
        \E values_order \in ValuesOrders(output) :
            \E r \in {GetAllPlayersInfo(all_players, bus, sink_inputs, output, values_order,
                                       iter_order)} :
                /\ sink_inputs' = r.sink_inputs
                /\ ret' = [op |-> "get_all_players_info", out |-> r.list,
                           extracted |-> Extracted(all_players, bus, r.sink_inputs,
                                                   values_order, iter_order)]
                /\ UNCHANGED <<track, bus, player, discovered_players, all_players, config_manager, config_store, app_vars>>

\* Player::set_volume can succeed only while the session is on the bus
NativeOutcomes(selected) ==
    IF IsSome(selected) /\ Live(bus, Unwrap(selected)) THEN BOOLEAN ELSE {FALSE}

\* the outcomes of the mixer commands, which run only after a native failure:
\* the listing, the iteration order of the refreshed map, the set command
MixerOutcomes(native_ok) ==
    IF native_ok THEN {<<PactlFailed, <<>>, FALSE>>}
    ELSE {<<output, values_order, run_ok>> :
            output \in PactlOutputs, values_order \in UNION {ValuesOrders(o) : o \in PactlOutputs},
            run_ok \in BOOLEAN}

CallSetVolume ==
    /\ ret = NoCall
    /\ \E volume \in Targets, native_ok \in NativeOutcomes(player) :
        \E m \in MixerOutcomes(native_ok) :
            /\ native_ok \/ m[2] \in ValuesOrders(m[1])
            /\ \E r \in {SetVolume(player, volume, native_ok, sink_inputs, m[1], m[2], m[3])} :
                   /\ sink_inputs' = r.sink_inputs
                   /\ ret' = [op |-> "set_volume", handle |-> player, volume |-> volume,
                              native_ok |-> native_ok, output |-> m[1], run_ok |-> m[3],
                              ok |-> r.ok, cmds |-> r.cmds]
                   /\ UNCHANGED <<track, bus, player, discovered_players, all_players, config_manager, config_store, app_vars>>

\* HashMap::get
MapGet(m, k) == IF k \in DOMAIN m THEN Some(m[k]) ELSE None

CallSetVolumePlayer ==
    /\ ret = NoCall
    /\ \E bus_name \in DOMAIN bus, volume \in Targets :
        \E native_ok \in NativeOutcomes(MapGet(all_players, bus_name)) :
            \E m \in MixerOutcomes(native_ok) :
                /\ native_ok \/ m[2] \in ValuesOrders(m[1])
                /\ \E r \in {SetVolumePlayer(all_players, bus_name, volume, native_ok,
                                            sink_inputs, m[1], m[2], m[3])} :
                       /\ sink_inputs' = r.sink_inputs
                       /\ ret' = [op |-> "set_volume_player",
                                  handle |-> MapGet(all_players, bus_name),
                                  volume |-> volume, native_ok |-> native_ok,
                                  output |-> m[1], run_ok |-> m[3], ok |-> r.ok,
                                  cmds |-> r.cmds]
                       /\ UNCHANGED <<track, bus, player, discovered_players, all_players, config_manager, config_store, app_vars>>

\* the patterns a stream is looked up by: the identities, a name no stream
\* carries, and a name that contains a stream's name
MixerPatterns == Names \cup {IdMozillaFirefox}

\* the stream indexes a volume write is addressed to
MixerIndexes == {7, 12}

\* the volumes a volume write is given, in hundredths: below 0.0, inside the
\* range, above 1.5
MixerTargets == (0 - 25)..175

CallRefreshSinkInputs ==
    /\ ret = NoCall
    /\ \E output \in MixerListings :
        \E r \in {RefreshSinkInputs(sink_inputs, output)} :
            /\ sink_inputs' = r.sink_inputs
            /\ ret' = [op |-> "refresh_sink_inputs", output |-> output, ok |-> r.ok]
            /\ UNCHANGED <<track, bus, player, discovered_players, all_players, config_manager, config_store, app_vars>>

CallFindSinkInputByName ==
    /\ ret = NoCall
    /\ \E app_name_pattern \in MixerPatterns, values_order \in Orders(DOMAIN sink_inputs) :
        /\ ret' = [op |-> "find_sink_input_by_name", app_name_pattern |-> app_name_pattern,
                   out |-> FindSinkInputByName(sink_inputs, values_order, app_name_pattern)]
        /\ UNCHANGED <<track, bus, player, discovered_players, all_players, sink_inputs, config_manager, config_store, app_vars>>

CallSetSinkInputVolume ==
    /\ ret = NoCall
    /\ \E index \in MixerIndexes, volume \in MixerTargets, run_ok \in BOOLEAN :
        \E r \in {SetSinkInputVolume(index, volume, run_ok)} :
            /\ ret' = [op |-> "set_sink_input_volume", index |-> index, volume |-> volume,
                       run_ok |-> run_ok, ok |-> r.ok, cmd |-> r.cmd]
            /\ UNCHANGED <<track, bus, player, discovered_players, all_players, sink_inputs, config_manager, config_store, app_vars>>

\* ------------------------------------- config.rs and app.rs: the applet
\* AppConfig::default
AppConfigDefault ==
    [enabled_players |-> {}, auto_detect_new_players |-> TRUE, selected_player |-> None,
     show_all_players |-> FALSE, hide_inactive_players |-> FALSE]

\* the mode with multi-player mode taken when there is no ConfigManager
GetShowAllPlayersOrTrue(cm) == IF IsSome(cm) THEN Unwrap(cm).show_all_players ELSE TRUE

\* config_manager.as_ref().is_some_and(ConfigManager::get_show_all_players)
GetShowAllPlayers(cm) == IsSome(cm) /\ Unwrap(cm).show_all_players

\* ConfigManager::get_selected_player
GetSelectedPlayer(cfg) == cfg.selected_player

\* ConfigManager::save_config: Config::set replaces the stored entry, or fails
\* and leaves it as it was
SaveConfig(cfg, store, write_ok) ==
    [app_config |-> cfg, store |-> IF write_ok THEN Some(cfg) ELSE store, ok |-> write_ok]

\* ConfigManager::set_selected_player: the field is assigned, then saved
SetSelectedPlayer(cfg, store, selected, write_ok) ==
    SaveConfig([cfg EXCEPT !.selected_player = selected], store, write_ok)

\* ConfigManager::set_auto_detect_new_players
SetAutoDetectNewPlayers(cfg, store, auto_detect, write_ok) ==
    SaveConfig([cfg EXCEPT !.auto_detect_new_players = auto_detect], store, write_ok)

\* ConfigManager::set_show_all_players
SetShowAllPlayers(cfg, store, show_all, write_ok) ==
    SaveConfig([cfg EXCEPT !.show_all_players = show_all], store, write_ok)

\* ConfigManager::set_hide_inactive_players
SetHideInactivePlayers(cfg, store, hide_inactive, write_ok) ==
    SaveConfig([cfg EXCEPT !.hide_inactive_players = hide_inactive], store, write_ok)

\* ConfigManager::add_discovered_player: nothing is done, and nothing saved,
\* unless auto-detect is on
AddDiscoveredPlayer(cfg, store, player_name, write_ok) ==
    IF cfg.auto_detect_new_players
    THEN SaveConfig([cfg EXCEPT !.enabled_players = @ \cup {player_name}], store, write_ok)
    ELSE [app_config |-> cfg, store |-> store, ok |-> TRUE]

\* the loop of handle_discover_players leaving at the first save that fails
RECURSIVE AddDiscoveredPlayersStopOnError(_, _, _, _)
AddDiscoveredPlayersStopOnError(cfg, store, names, writes) ==
    IF names = <<>> THEN [app_config |-> cfg, store |-> store]
    ELSE LET r == AddDiscoveredPlayer(cfg, store, Head(names), writes[Head(names)])
         IN  IF r.ok
             THEN AddDiscoveredPlayersStopOnError(r.app_config, r.store, Tail(names), writes)
             ELSE [app_config |-> r.app_config, store |-> r.store]

\* the loop of handle_discover_players over get_discovered_players(), whose
\* results are discarded: names in the order the map's values iterate,
\* writes[n] the outcome of the save made for name n
RECURSIVE AddDiscoveredPlayers(_, _, _, _)
AddDiscoveredPlayers(cfg, store, names, writes) ==
    IF names = <<>> THEN [app_config |-> cfg, store |-> store]
    ELSE LET r == AddDiscoveredPlayer(cfg, store, Head(names), writes[Head(names)])
         IN  AddDiscoveredPlayers(r.app_config, r.store, Tail(names), writes)

\* ConfigManager::new on an available store: the stored entry is loaded, or
\* the defaults are stored and used; None when storing them fails
ConfigManagerNew(existing, write_ok) ==
    IF IsSome(existing) THEN [config_manager |-> existing, config_store |-> existing]
    ELSE IF write_ok
    THEN [config_manager |-> Some(AppConfigDefault), config_store |-> Some(AppConfigDefault)]
    ELSE [config_manager |-> None, config_store |-> None]

\* Message values
MsgFindPlayer == [msg |-> "FindPlayer"]

MsgDiscoverPlayers == [msg |-> "DiscoverPlayers"]

MsgUpdatePlayerInfo(info) == [msg |-> "UpdatePlayerInfo", info |-> info]

MsgUpdateAllPlayersInfo(players_info) ==
    [msg |-> "UpdateAllPlayersInfo", players_info |-> players_info]

\* the order in which a map with key set S iterates, given an order of all keys
Restrict(order, S) == SelectSeq(order, LAMBDA k : k \in S)

\* handle_find_player looking for an active player in multi-player mode too
HandleFindPlayerBothModes(cm, selected, b, discovered, sessions, stored, finder_ok, found, active, output, values_order, bus_order) ==
    IF GetShowAllPlayers(cm)
    THEN LET d == DiscoverAllPlayers(finder_ok, found, b, discovered, sessions)
             g == GetAllPlayersInfo(d.all_players, b, stored, output, values_order,
                                    Restrict(bus_order, DOMAIN d.all_players))
         IN  [player |-> FindActivePlayer(finder_ok, active, selected).player,
              discovered_players |-> d.discovered_players,
              all_players |-> d.all_players, sink_inputs |-> g.sink_inputs,
              calls |-> <<"discover_all_players", "get_all_players_info">>,
              task |-> <<MsgUpdateAllPlayersInfo(g.list)>>]
    ELSE LET f == IF IsSome(cm) /\ IsSome(GetSelectedPlayer(Unwrap(cm)))
                  THEN FindSpecificPlayer(finder_ok, found,
                                          Unwrap(GetSelectedPlayer(Unwrap(cm))), selected)
                  ELSE FindActivePlayer(finder_ok, active, selected)
             i == GetPlayerInfo(f.player, b, stored, output, values_order)
         IN  [player |-> f.player, discovered_players |-> discovered,
              all_players |-> sessions, sink_inputs |-> i.sink_inputs,
              calls |-> <<IF IsSome(cm) /\ IsSome(GetSelectedPlayer(Unwrap(cm)))
                          THEN "find_specific_player" ELSE "find_active_player",
                          "get_player_info">>,
              task |-> <<MsgUpdatePlayerInfo(i.info)>>]

\* handle_find_player running a discovery pass in both modes
HandleFindPlayerAlwaysDiscover(cm, selected, b, discovered, sessions, stored, finder_ok, found, active, output, values_order, bus_order) ==
    LET d == DiscoverAllPlayers(finder_ok, found, b, discovered, sessions)
        g == GetAllPlayersInfo(d.all_players, b, stored, output, values_order,
                               Restrict(bus_order, DOMAIN d.all_players))
        f == IF IsSome(cm) /\ IsSome(GetSelectedPlayer(Unwrap(cm)))
             THEN FindSpecificPlayer(finder_ok, found,
                                     Unwrap(GetSelectedPlayer(Unwrap(cm))), selected)
             ELSE FindActivePlayer(finder_ok, active, selected)
        i == GetPlayerInfo(f.player, b, stored, output, values_order)
    IN  IF GetShowAllPlayers(cm)
        THEN [player |-> selected, discovered_players |-> d.discovered_players,
              all_players |-> d.all_players, sink_inputs |-> g.sink_inputs,
              calls |-> <<"discover_all_players", "get_all_players_info">>,
              task |-> <<MsgUpdateAllPlayersInfo(g.list)>>]
        ELSE [player |-> f.player, discovered_players |-> d.discovered_players,
              all_players |-> d.all_players, sink_inputs |-> i.sink_inputs,
              calls |-> <<"discover_all_players", "find_player", "get_player_info">>,
              task |-> <<MsgUpdatePlayerInfo(i.info)>>]

\* CosmicAppletMusic::handle_find_player: the controller's state after it, the
\* controller calls it made, in order, and the Task it returns.
\* finder_ok, found, active: the outcomes of PlayerFinder::new, find_all and
\* find_active; output, values_order: the mixer listing and the refreshed
\* map's iteration order; bus_order: the session map's iteration order
HandleFindPlayer(cm, selected, b, discovered, sessions, stored, finder_ok, found, active, output, values_order, bus_order) ==
    IF GetShowAllPlayers(cm)
    THEN LET d == DiscoverAllPlayers(finder_ok, found, b, discovered, sessions)
             g == GetAllPlayersInfo(d.all_players, b, stored, output, values_order,
                                    Restrict(bus_order, DOMAIN d.all_players))
         IN  [player |-> selected, discovered_players |-> d.discovered_players,
              all_players |-> d.all_players, sink_inputs |-> g.sink_inputs,
              calls |-> <<"discover_all_players", "get_all_players_info">>,
              task |-> <<MsgUpdateAllPlayersInfo(g.list)>>]
    ELSE LET f == IF IsSome(cm) /\ IsSome(GetSelectedPlayer(Unwrap(cm)))
                  THEN FindSpecificPlayer(finder_ok, found,
                                          Unwrap(GetSelectedPlayer(Unwrap(cm))), selected)
                  ELSE FindActivePlayer(finder_ok, active, selected)
             i == GetPlayerInfo(f.player, b, stored, output, values_order)
         IN  [player |-> f.player, discovered_players |-> discovered,
              all_players |-> sessions, sink_inputs |-> i.sink_inputs,
              calls |-> <<IF IsSome(cm) /\ IsSome(GetSelectedPlayer(Unwrap(cm)))
                          THEN "find_specific_player" ELSE "find_active_player",
                          "get_player_info">>,
              task |-> <<MsgUpdatePlayerInfo(i.info)>>]

\* CosmicAppletMusic::handle_discover_players.  values_order: the order in
\* which the discovery map's values iterate; writes: the outcome of each save
HandleDiscoverPlayers(cm, store, b, discovered, sessions, finder_ok, found, values_order, writes) ==
    LET d == DiscoverAllPlayers(finder_ok, found, b, discovered, sessions)
        c == IF IsSome(cm)
             THEN AddDiscoveredPlayers(Unwrap(cm), store,
                                       Restrict(values_order, DOMAIN d.discovered_players),
                                       writes)
             ELSE [app_config |-> None, store |-> store]
    IN  [discovered_players |-> d.discovered_players, all_players |-> d.all_players,
         config_manager |-> IF IsSome(cm) THEN Some(c.app_config) ELSE cm,
         config_store |-> c.store,
         calls |-> <<"discover_all_players">>,
         task |-> <<>>]

\* what Player::play_pause does to the session when the call succeeds
TogglePlayback(status) == IF status = Playing THEN Paused ELSE Playing

\* MusicController::play_pause_player: the result and the bus after it
PlayPausePlayer(sessions, bus_name, b, native_ok) ==
    IF bus_name \in DOMAIN sessions /\ native_ok
    THEN [ok |-> TRUE, bus |-> [b EXCEPT ![bus_name] = TogglePlayback(@)]]
    ELSE [ok |-> bus_name \notin DOMAIN sessions, bus |-> b]

\* MusicController::next_player and previous_player: the result
SkipPlayer(sessions, bus_name, native_ok) == bus_name \notin DOMAIN sessions \/ native_ok

\* the Task of the per-player transport handlers and of enabling show-all:
\* batch([done(DiscoverPlayers), done(UpdateAllPlayersInfo(get_all_players_info()))]),
\* the list being extracted while the batch is built
DiscoverAndUpdate(sessions, b, stored, output, values_order, bus_order) ==
    LET g == GetAllPlayersInfo(sessions, b, stored, output, values_order,
                               Restrict(bus_order, DOMAIN sessions))
    IN  [sink_inputs |-> g.sink_inputs,
         task |-> <<MsgDiscoverPlayers, MsgUpdateAllPlayersInfo(g.list)>>]

\* CosmicAppletMusic::handle_play_pause_player
HandlePlayPausePlayer(sessions, b, stored, bus_name, native_ok, output, values_order, bus_order) ==
    LET t == PlayPausePlayer(sessions, bus_name, b, native_ok)
        u == DiscoverAndUpdate(sessions, t.bus, stored, output, values_order, bus_order)
    IN  [bus |-> t.bus, sink_inputs |-> u.sink_inputs,
         calls |-> <<"play_pause_player", "get_all_players_info">>, task |-> u.task]

\* CosmicAppletMusic::handle_next_player
HandleNextPlayer(sessions, b, stored, output, values_order, bus_order) ==
    LET u == DiscoverAndUpdate(sessions, b, stored, output, values_order, bus_order)
    IN  [sink_inputs |-> u.sink_inputs,
         calls |-> <<"next_player", "get_all_players_info">>, task |-> u.task]

\* CosmicAppletMusic::handle_previous_player
HandlePreviousPlayer(sessions, b, stored, output, values_order, bus_order) ==
    LET u == DiscoverAndUpdate(sessions, b, stored, output, values_order, bus_order)
    IN  [sink_inputs |-> u.sink_inputs,
         calls |-> <<"previous_player", "get_all_players_info">>, task |-> u.task]

\* CosmicAppletMusic::handle_toggle_show_all_players
HandleToggleShowAllPlayers(cm, store, enabled, write_ok, sessions, b, stored, output, values_order, bus_order) ==
    LET u == DiscoverAndUpdate(sessions, b, stored, output, values_order, bus_order)
        c == IF IsSome(cm) THEN SetShowAllPlayers(Unwrap(cm), store, enabled, write_ok)
             ELSE [app_config |-> None, store |-> store]
        m == IF IsSome(cm) THEN Some(c.app_config) ELSE cm
    IN  IF enabled
        THEN [config_manager |-> m, config_store |-> c.store, sink_inputs |-> u.sink_inputs,
              calls |-> <<"get_all_players_info">>, task |-> u.task]
        ELSE [config_manager |-> m, config_store |-> c.store, sink_inputs |-> stored,
              calls |-> <<>>, task |-> <<>>]

\* a settings handler's `if let Some(ref mut config)`: the setter's result when
\* there is a ConfigManager, nothing otherwise.  c: the setter's result
Configured(cm, store, c) ==
    IF IsSome(cm) THEN [config_manager |-> Some(c.app_config), config_store |-> c.store]
    ELSE [config_manager |-> cm, config_store |-> store]

\* CosmicAppletMusic::handle_toggle_auto_detect
HandleToggleAutoDetect(cm, store, enabled, write_ok) ==
    Configured(cm, store, IF IsSome(cm)
                          THEN SetAutoDetectNewPlayers(Unwrap(cm), store, enabled, write_ok)
                          ELSE None)
        @@ [task |-> <<>>]

\* CosmicAppletMusic::handle_select_player
HandleSelectPlayer(cm, store, selected, write_ok) ==
    Configured(cm, store, IF IsSome(cm)
                          THEN SetSelectedPlayer(Unwrap(cm), store, selected, write_ok)
                          ELSE None)
        @@ [task |-> <<MsgFindPlayer>>]

\* CosmicAppletMusic::handle_toggle_hide_inactive
HandleToggleHideInactive(cm, store, enabled, write_ok) ==
    Configured(cm, store, IF IsSome(cm)
                          THEN SetHideInactivePlayers(Unwrap(cm), store, enabled, write_ok)
                          ELSE None)
        @@ [task |-> <<>>]

\* the mixer listings the applet's handlers meet
AppOutputs == {PactlFailed, ListingFirefox}

\* the sessions the applet's bus can carry
AppBusNames == {<<"firefox", 1>>, <<"spotify", 0>>}

\* the identities of the sessions the bus can carry
BusIdentities == {IdentityOf(b) : b \in DOMAIN bus}

\* the outcomes of the store write a setter makes: none is made, and the
\* outcome is immaterial, when there is no ConfigManager
WriteOutcomes == IF IsSome(config_manager) THEN BOOLEAN ELSE {TRUE}

\* the outcomes of the store writes made for the names of a set
SaveOutcomes(names) == [names -> WriteOutcomes]

\* the configurations ConfigManager::new can load, and None when the store is
\* unavailable; a loaded configuration is the stored entry, and the defaults
\* are stored before they are used
ConfigsAtInit ==
    {None} \cup {Some([AppConfigDefault EXCEPT !.show_all_players = s]) : s \in BOOLEAN}

\* CosmicAppletMusic::init: the applet, and the Task init returns
InitApp ==
    /\ bus = [b \in AppBusNames |-> Absent]
    /\ player = None
    /\ track = 0
    /\ discovered_players = EmptyMap
    /\ all_players = EmptyMap
    /\ sink_inputs = EmptyMap
    /\ config_manager \in ConfigsAtInit
    /\ config_store = config_manager
    /\ InitAppVars
    /\ ret = [op |-> "init", calls |-> <<>>, task |-> <<MsgDiscoverPlayers, MsgFindPlayer>>]

\* Message::FindPlayer, from the 1000 ms subscription or a handler's Task
OnFindPlayer ==
    /\ ret = NoCall
    /\ \E finder_ok \in BOOLEAN, found \in FindAllResults, active \in FindActiveResults,
          output \in AppOutputs, bus_order \in Orders(DOMAIN bus) :
        \E values_order \in ValuesOrders(output) :
            \E r \in {HandleFindPlayer(config_manager, player, bus, discovered_players,
                                      all_players, sink_inputs, finder_ok, found, active,
                                      output, values_order, bus_order)} :
                /\ player' = r.player
                /\ discovered_players' = r.discovered_players
                /\ all_players' = r.all_players
                /\ sink_inputs' = r.sink_inputs
                /\ ret' = [op |-> "handle_find_player",
                           show_all_players |-> GetShowAllPlayers(config_manager),
                           finder_ok |-> finder_ok, found_ok |-> IsSome(found),
                           calls |-> r.calls, task |-> r.task]
                /\ UNCHANGED <<track, bus, config_manager, config_store, app_vars>>

\* Message::DiscoverPlayers, from the settings button or a handler's Task
OnDiscoverPlayers ==
    /\ ret = NoCall
    /\ \E finder_ok \in BOOLEAN, found \in FindAllResults,
          values_order \in Orders(BusIdentities), writes \in SaveOutcomes(BusIdentities) :
        \E r \in {HandleDiscoverPlayers(config_manager, config_store, bus, discovered_players,
                                       all_players, finder_ok, found, values_order, writes)} :
            /\ discovered_players' = r.discovered_players
            /\ all_players' = r.all_players
            /\ config_manager' = r.config_manager
            /\ config_store' = r.config_store
            /\ ret' = [op |-> "handle_discover_players", finder_ok |-> finder_ok,
                       found_ok |-> IsSome(found), calls |-> r.calls, task |-> r.task]
            /\ UNCHANGED <<track, bus, player, sink_inputs, app_vars>>

\* Message::PlayPausePlayer(bus_name), from a player card
OnPlayPausePlayer ==
    /\ ret = NoCall
    /\ \E bus_name \in DOMAIN bus, output \in AppOutputs, bus_order \in Orders(DOMAIN bus) :
        \E native_ok \in NativeOutcomes(MapGet(all_players, bus_name)),
           values_order \in ValuesOrders(output) :
            \E r \in {HandlePlayPausePlayer(all_players, bus, sink_inputs, bus_name, native_ok,
                                           output, values_order, bus_order)} :
                /\ bus' = r.bus
                /\ sink_inputs' = r.sink_inputs
                /\ ret' = [op |-> "handle_play_pause_player",
                           calls |-> r.calls, task |-> r.task]
                /\ UNCHANGED <<track, player, discovered_players, all_players, config_manager, config_store, app_vars>>

\* Message::NextPlayer(bus_name), from a player card
OnNextPlayer ==
    /\ ret = NoCall
    /\ \E bus_name \in DOMAIN bus, output \in AppOutputs, bus_order \in Orders(DOMAIN bus) :
        \E values_order \in ValuesOrders(output) :
            \E r \in {HandleNextPlayer(all_players, bus, sink_inputs, output, values_order,
                                      bus_order)} :
                /\ sink_inputs' = r.sink_inputs
                /\ ret' = [op |-> "handle_next_player",
                           calls |-> r.calls, task |-> r.task]
                /\ UNCHANGED <<track, bus, player, discovered_players, all_players, config_manager, config_store, app_vars>>

\* Message::PreviousPlayer(bus_name), from a player card
OnPreviousPlayer ==
    /\ ret = NoCall
    /\ \E bus_name \in DOMAIN bus, output \in AppOutputs, bus_order \in Orders(DOMAIN bus) :
        \E values_order \in ValuesOrders(output) :
            \E r \in {HandlePreviousPlayer(all_players, bus, sink_inputs, output, values_order,
                                          bus_order)} :
                /\ sink_inputs' = r.sink_inputs
                /\ ret' = [op |-> "handle_previous_player",
                           calls |-> r.calls, task |-> r.task]
                /\ UNCHANGED <<track, bus, player, discovered_players, all_players, config_manager, config_store, app_vars>>

\* Message::ToggleShowAllPlayers(enabled), from the settings checkbox
OnToggleShowAllPlayers ==
    /\ ret = NoCall
    /\ \E enabled \in BOOLEAN, write_ok \in WriteOutcomes, output \in AppOutputs,
          bus_order \in Orders(DOMAIN bus) :
        \E values_order \in ValuesOrders(output) :
            \E r \in {HandleToggleShowAllPlayers(config_manager, config_store, enabled,
                                                write_ok, all_players, bus, sink_inputs,
                                                output, values_order, bus_order)} :
                /\ config_manager' = r.config_manager
                /\ config_store' = r.config_store
                /\ sink_inputs' = r.sink_inputs
                /\ ret' = [op |-> "handle_toggle_show_all_players", enabled |-> enabled,
                           calls |-> r.calls, task |-> r.task]
                /\ UNCHANGED <<track, bus, player, discovered_players, all_players, app_vars>>

\* Message::ToggleAutoDetect(enabled), update() called with it
OnToggleAutoDetect ==
    /\ ret = NoCall
    /\ \E enabled \in BOOLEAN, write_ok \in WriteOutcomes :
        \E r \in {HandleToggleAutoDetect(config_manager, config_store, enabled, write_ok)} :
            /\ config_manager' = r.config_manager
            /\ config_store' = r.config_store
            /\ ret' = [op |-> "handle_toggle_auto_detect", enabled |-> enabled,
                       calls |-> <<>>, task |-> r.task]
            /\ UNCHANGED <<track, bus, player, discovered_players, all_players, sink_inputs, app_vars>>

\* the choices of the settings tab's radio buttons: None, or a discovered player
RadioChoices == {None} \cup {Some(i) : i \in DOMAIN discovered_players}

\* Message::SelectPlayer(player), from a radio button of the settings tab
OnSelectPlayer ==
    /\ ret = NoCall
    /\ \E selected \in RadioChoices, write_ok \in WriteOutcomes :
        \E r \in {HandleSelectPlayer(config_manager, config_store, selected, write_ok)} :
            /\ config_manager' = r.config_manager
            /\ config_store' = r.config_store
            /\ ret' = [op |-> "handle_select_player", selected |-> selected,
                       calls |-> <<>>, task |-> r.task]
            /\ UNCHANGED <<track, bus, player, discovered_players, all_players, sink_inputs, app_vars>>

\* Message::ToggleHideInactive(enabled), update() called with it
OnToggleHideInactive ==
    /\ ret = NoCall
    /\ \E enabled \in BOOLEAN, write_ok \in WriteOutcomes :
        \E r \in {HandleToggleHideInactive(config_manager, config_store, enabled, write_ok)} :
            /\ config_manager' = r.config_manager
            /\ config_store' = r.config_store
            /\ ret' = [op |-> "handle_toggle_hide_inactive", enabled |-> enabled,
                       calls |-> <<>>, task |-> r.task]
            /\ UNCHANGED <<track, bus, player, discovered_players, all_players, sink_inputs, app_vars>>

\* --------------------------------------- config.rs: the setters, called
\* the player names the setters are called with
ConfigNames == {IdSpotify, IdFirefox}

\* the result of a setter: the configuration in memory and the stored entry
Stored(r) ==
    /\ config_manager' = Some(r.app_config)
    /\ config_store' = r.store
    /\ UNCHANGED <<track, bus, player, discovered_players, all_players, sink_inputs, app_vars>>

CallSetSelectedPlayer ==
    /\ ret = NoCall /\ IsSome(config_manager)
    /\ \E selected \in {None} \cup {Some(n) : n \in ConfigNames}, write_ok \in BOOLEAN :
        \E r \in {SetSelectedPlayer(Unwrap(config_manager), config_store, selected, write_ok)} :
            /\ Stored(r)
            /\ ret' = [op |-> "set_selected_player", ok |-> r.ok]

CallSetAutoDetectNewPlayers ==
    /\ ret = NoCall /\ IsSome(config_manager)
    /\ \E auto_detect \in BOOLEAN, write_ok \in BOOLEAN :
        \E r \in {SetAutoDetectNewPlayers(Unwrap(config_manager), config_store, auto_detect,
                                         write_ok)} :
            /\ Stored(r)
            /\ ret' = [op |-> "set_auto_detect_new_players", ok |-> r.ok]

CallSetShowAllPlayers ==
    /\ ret = NoCall /\ IsSome(config_manager)
    /\ \E show_all \in BOOLEAN, write_ok \in BOOLEAN :
        \E r \in {SetShowAllPlayers(Unwrap(config_manager), config_store, show_all, write_ok)} :
            /\ Stored(r)
            /\ ret' = [op |-> "set_show_all_players", ok |-> r.ok]

CallSetHideInactivePlayers ==
    /\ ret = NoCall /\ IsSome(config_manager)
    /\ \E hide_inactive \in BOOLEAN, write_ok \in BOOLEAN :
        \E r \in {SetHideInactivePlayers(Unwrap(config_manager), config_store, hide_inactive,
                                        write_ok)} :
            /\ Stored(r)
            /\ ret' = [op |-> "set_hide_inactive_players", ok |-> r.ok]

CallAddDiscoveredPlayer ==
    /\ ret = NoCall /\ IsSome(config_manager)
    /\ \E player_name \in ConfigNames, write_ok \in BOOLEAN :
        \E r \in {AddDiscoveredPlayer(Unwrap(config_manager), config_store, player_name,
                                     write_ok)} :
            /\ Stored(r)
            /\ ret' = [op |-> "add_discovered_player", ok |-> r.ok]

\* ------------------------------------------- app.rs: the single-player panel
MsgPlayPause == [msg |-> "PlayPause"]

MsgMiddleClick == [msg |-> "MiddleClick"]

MsgNext == [msg |-> "Next"]

MsgScrollUp == [msg |-> "ScrollUp"]

MsgPrevious == [msg |-> "Previous"]

MsgScrollDown == [msg |-> "ScrollDown"]

MsgUpdateStatus(status) == [msg |-> "UpdateStatus", status |-> status]

MsgVolumeChanged(volume) == [msg |-> "VolumeChanged", volume |-> volume]

MsgLoadAlbumArt(url) == [msg |-> "LoadAlbumArt", url |-> url]

MsgAlbumArtLoaded(handle) == [msg |-> "AlbumArtLoaded", handle |-> handle]

MsgAlbumArtLoadedPlayer(bus_name, handle) ==
    [msg |-> "AlbumArtLoadedPlayer", bus_name |-> bus_name, handle |-> handle]

MsgLoadAlbumArtPlayer(bus_name, url) ==
    [msg |-> "LoadAlbumArtPlayer", bus_name |-> bus_name, url |-> url]

MsgVolumeChangedPlayer(bus_name, volume) ==
    [msg |-> "VolumeChangedPlayer", bus_name |-> bus_name, volume |-> volume]

\* a native call made on a session handle
MprisCall(method, h) == [name |-> method, target |-> h.bus_name, value |-> 0]

\* MusicController::play_pause: the call made on the selected handle, if there
\* is one, its result, and the bus after it
PlayPause(selected, b, native_ok) ==
    IF IsSome(selected)
    THEN [ok |-> native_ok, cmds |-> <<MprisCall("Player::play_pause", Unwrap(selected))>>,
          bus |-> IF native_ok
                  THEN [b EXCEPT ![Unwrap(selected).bus_name] = TogglePlayback(@)]
                  ELSE b]
    ELSE [ok |-> TRUE, cmds |-> <<>>, bus |-> b]

\* MusicController::next and MusicController::previous
Skip(method, selected, native_ok) ==
    IF IsSome(selected)
    THEN [ok |-> native_ok, cmds |-> <<MprisCall(method, Unwrap(selected))>>]
    ELSE [ok |-> TRUE, cmds |-> <<>>]

\* the status handle_play_pause shows at once, from the displayed one
ToggledStatus(status) == IF status = Playing THEN Paused ELSE Playing

\* CosmicAppletMusic::handle_play_pause: the result of the call is discarded
HandlePlayPause(selected, b, native_ok, info) ==
    LET t == PlayPause(selected, b, native_ok)
    IN  [bus |-> t.bus, cmds |-> t.cmds, ok |-> t.ok,
         task |-> <<MsgUpdateStatus(ToggledStatus(info.status)), MsgFindPlayer>>]

\* CosmicAppletMusic::handle_next
HandleNext(selected, native_ok) ==
    LET t == Skip("Player::next", selected, native_ok)
    IN  [cmds |-> t.cmds, ok |-> t.ok, task |-> <<MsgFindPlayer>>]

\* CosmicAppletMusic::handle_previous
HandlePrevious(selected, native_ok) ==
    LET t == Skip("Player::previous", selected, native_ok)
    IN  [cmds |-> t.cmds, ok |-> t.ok, task |-> <<MsgFindPlayer>>]

\* CosmicAppletMusic::handle_update_player_info
HandleUpdatePlayerInfo(info, art_url, handle) ==
    LET should_load_art ==
            IF IsSome(info.art_url)
            THEN ~IsSome(art_url) \/ Unwrap(art_url) # Unwrap(info.art_url)
            ELSE FALSE
        cleared == IsSome(art_url) /\ ~IsSome(info.art_url)
    IN  [player_info |-> info,
         album_art_handle |-> IF cleared THEN None ELSE handle,
         current_art_url |-> IF cleared THEN None
                             ELSE IF should_load_art THEN info.art_url
                             ELSE art_url,
         task |-> IF should_load_art THEN <<MsgLoadAlbumArt(Unwrap(info.art_url))>>
                  ELSE <<>>]

\* CosmicAppletMusic::handle_update_status
HandleUpdateStatus(info, status) == [info EXCEPT !.status = status]

\* CosmicAppletMusic::handle_volume_changed: the result of set_volume is
\* discarded and the displayed volume is set to the requested one
HandleVolumeChanged(selected, info, volume, native_ok, stored, output, values_order, run_ok) ==
    LET v == SetVolume(selected, volume, native_ok, stored, output, values_order, run_ok)
    IN  [player_info |-> [info EXCEPT !.volume = volume], sink_inputs |-> v.sink_inputs,
         cmds |-> v.cmds, ok |-> v.ok, task |-> <<>>]

\* a request for every entry that has an art url, stored image or not
RECURSIVE ArtRequestsUncached(_, _)
ArtRequestsUncached(players_info, arts) ==
    IF players_info = <<>> THEN <<>>
    ELSE LET p == Head(players_info)
             rest == ArtRequestsUncached(Tail(players_info), arts)
         IN  IF IsSome(p.art_url)
             THEN <<MsgLoadAlbumArtPlayer(p.bus_name, Unwrap(p.art_url))>> \o rest
             ELSE rest

\* the art requests handle_update_all_players_info makes: one for each entry,
\* in order, that has an art url and whose bus name has no cached art
RECURSIVE ArtRequests(_, _)
ArtRequests(players_info, arts) ==
    IF players_info = <<>> THEN <<>>
    ELSE LET p == Head(players_info)
             rest == ArtRequests(Tail(players_info), arts)
         IN  IF IsSome(p.art_url) /\ p.bus_name \notin DOMAIN arts
             THEN <<MsgLoadAlbumArtPlayer(p.bus_name, Unwrap(p.art_url))>> \o rest
             ELSE rest

\* CosmicAppletMusic::handle_update_all_players_info
HandleUpdateAllPlayersInfo(players_info, arts) ==
    [all_players_info |-> players_info, task |-> ArtRequests(players_info, arts)]

\* iter_mut().find(|p| p.bus_name == bus_name): the position of the first entry
\* with the bus name, or 0
FirstEntry(list, bus_name) ==
    LET hits == {k \in 1..Len(list) : list[k].bus_name = bus_name}
    IN  IF hits = {} THEN 0 ELSE CHOOSE k \in hits : \A j \in hits : k <= j

\* CosmicAppletMusic::handle_volume_changed_player
HandleVolumeChangedPlayer(sessions, list, bus_name, volume, native_ok, stored, output, values_order, run_ok) ==
    LET v == SetVolumePlayer(sessions, bus_name, volume, native_ok, stored, output,
                             values_order, run_ok)
        k == FirstEntry(list, bus_name)
    IN  [all_players_info |-> IF k = 0 THEN list
                              ELSE [list EXCEPT ![k] = [@ EXCEPT !.volume = volume]],
         sink_inputs |-> v.sink_inputs, cmds |-> v.cmds, ok |-> v.ok, task |-> <<>>]

\* the messages of a Task, as the runtime holds them until update() takes them
RECURSIVE TaskBag(_)
TaskBag(task) ==
    IF task = <<>> THEN EmptyBag ELSE SetToBag({Head(task)}) (+) TaskBag(Tail(task))

\* the most messages the runtime holds at a time
MaxMessages == 2

\* update() can take message m: the runtime holds it, or an input (a widget,
\* a gesture, the timer) produces it now
CanTake(m, from_input) == from_input \/ BagIn(m, messages)

\* the runtime's messages once update() has taken m and returned a Task
Delivered(m, from_input, task) ==
    (IF from_input THEN messages ELSE messages (-) SetToBag({m})) (+) TaskBag(task)

\* the runtime has room for the Task's messages
HasRoom(pool) == BagCardinality(pool) <= MaxMessages

\* ---------------------------------------------------- the panel's machine
\* the sessions the panel's bus can carry: players without cover art
PanelBusNames == {<<"mpv", 0>>}

\* the mixer listings the panel's handlers meet
PanelOutputs == {PactlFailed, ListingMixed}

\* the volumes the popup's sliders give (0.0..=1.0), in hundredths
SliderTargets == {0, 29, 100}

\* the configurations the panel starts with: no store, or the defaults
\* (single-player mode, no player selected)
PanelConfigs == {None, Some(AppConfigDefault)}

\* the configuration the popup's controls start with: a selected player
ControlsConfigs == {Some([AppConfigDefault EXCEPT !.selected_player = Some(IdMpv)])}

\* the configurations the popup's cards start with: a selected player, or
\* multi-player mode
CardsConfigs ==
    ControlsConfigs \cup {Some([AppConfigDefault EXCEPT !.show_all_players = TRUE])}

\* CosmicAppletMusic::init over a bus that can carry the sessions names, with
\* one of the configurations configs, its Task held by the runtime
InitOver(names, configs) ==
    /\ bus = [b \in names |-> Absent]
    /\ player = None
    /\ track = 0
    /\ discovered_players = EmptyMap
    /\ all_players = EmptyMap
    /\ sink_inputs = EmptyMap
    /\ config_manager \in configs
    /\ config_store = config_manager
    /\ player_info = PlayerInfoDefault
    /\ all_players_info = <<>>
    /\ album_art_handle = None
    /\ current_art_url = None
    /\ player_album_arts = EmptyMap
    /\ messages = TaskBag(<<MsgDiscoverPlayers, MsgFindPlayer>>)
    /\ fetches = EmptyBag
    /\ ret = [op |-> "init"]

InitWith(configs) == InitOver(PanelBusNames, configs)

InitPanel == InitWith(PanelConfigs)

InitControls == InitWith(ControlsConfigs)

\* view_controls_tab draws the single-player controls (transport buttons and
\* the volume slider): single-player mode with a player selected in the config
ControlsShown(cm) ==
    /\ ~GetShowAllPlayers(cm)
    /\ IsSome(cm) /\ IsSome(GetSelectedPlayer(Unwrap(cm)))

\* view_all_players draws a card, with its volume slider, for the entries of
\* the list: multi-player mode, stopped entries left out when they are hidden
CardsShown(cm, list) ==
    IF GetShowAllPlayers(cm)
    THEN {list[k].bus_name : k \in {j \in 1..Len(list) :
              /\ list[j].can_control_volume
              /\ ~(Unwrap(cm).hide_inactive_players /\ list[j].status = Stopped)}}
    ELSE {}

\* the outcomes of the mixer commands the volume chain runs after a native
\* failure, over the listings of a set
MixerOutcomesOf(outputs, native_ok) ==
    IF native_ok THEN {<<PactlFailed, <<>>, FALSE>>}
    ELSE {<<output, values_order, run_ok>> :
            output \in outputs, values_order \in UNION {ValuesOrders(o) : o \in outputs},
            run_ok \in BOOLEAN}

\* handle_find_player calls find_active_player, whose outcome alone matters
\* then: single-player mode with no ConfigManager or no player selected
UsesFindActive(cm) ==
    /\ ~GetShowAllPlayers(cm)
    /\ ~(IsSome(cm) /\ IsSome(GetSelectedPlayer(Unwrap(cm))))

\* Message::FindPlayer, from the 1000 ms subscription or from a Task
DispatchFindPlayer ==
    \E from_input \in BOOLEAN, finder_ok \in BOOLEAN,
       found \in IF UsesFindActive(config_manager) THEN {None} ELSE FindAllResults,
       active \in IF UsesFindActive(config_manager) THEN FindActiveResults ELSE {None},
       output \in AppOutputs, bus_order \in Orders(DOMAIN bus) :
        /\ CanTake(MsgFindPlayer, from_input)
        /\ \E values_order \in ValuesOrders(output) :
            \E r \in {HandleFindPlayer(config_manager, player, bus, discovered_players,
                                      all_players, sink_inputs, finder_ok, found, active,
                                      output, values_order, bus_order)} :
                /\ HasRoom(Delivered(MsgFindPlayer, from_input, r.task))
                /\ messages' = Delivered(MsgFindPlayer, from_input, r.task)
                /\ player' = r.player
                /\ discovered_players' = r.discovered_players
                /\ all_players' = r.all_players
                /\ sink_inputs' = r.sink_inputs
                /\ ret' = [op |-> "handle_find_player", finder_ok |-> finder_ok,
                           active_ok |-> IsSome(active), calls |-> r.calls]
                /\ UNCHANGED <<track, bus, config_manager, config_store, player_info,
                               all_players_info, album_art_handle, current_art_url,
                               player_album_arts, fetches>>

\* Message::DiscoverPlayers, from the settings button or from a Task
DispatchDiscoverPlayers ==
    \E from_input \in BOOLEAN, finder_ok \in BOOLEAN, found \in FindAllResults,
       values_order \in Orders(BusIdentities), writes \in SaveOutcomes(BusIdentities) :
        /\ CanTake(MsgDiscoverPlayers, from_input)
        /\ \E r \in {HandleDiscoverPlayers(config_manager, config_store, bus,
                                          discovered_players, all_players, finder_ok, found,
                                          values_order, writes)} :
            /\ messages' = Delivered(MsgDiscoverPlayers, from_input, r.task)
            /\ discovered_players' = r.discovered_players
            /\ all_players' = r.all_players
            /\ config_manager' = r.config_manager
            /\ config_store' = r.config_store
            /\ ret' = [op |-> "handle_discover_players"]
            /\ UNCHANGED <<track, bus, player, sink_inputs, player_info, all_players_info,
                           album_art_handle, current_art_url, player_album_arts, fetches>>

\* Message::PlayPause, from the popup's button, and Message::MiddleClick, from
\* the panel icon
DispatchPlayPause ==
    \E m \in {MsgPlayPause, MsgMiddleClick}, native_ok \in NativeOutcomes(player) :
        /\ m = MsgPlayPause => ControlsShown(config_manager)
        /\ \E r \in {HandlePlayPause(player, bus, native_ok, player_info)} :
            /\ HasRoom(Delivered(m, TRUE, r.task))
            /\ messages' = Delivered(m, TRUE, r.task)
            /\ bus' = r.bus
            /\ ret' = [op |-> "handle_play_pause", msg |-> m.msg, native_ok |-> native_ok,
                       cmds |-> r.cmds]
            /\ UNCHANGED <<track, player, discovered_players, all_players, sink_inputs,
                           config_manager, config_store, player_info, all_players_info,
                           album_art_handle, current_art_url, player_album_arts, fetches>>

\* Message::Next, from the popup's button, and Message::ScrollUp, from the
\* panel icon
DispatchNext ==
    \E m \in {MsgNext, MsgScrollUp}, native_ok \in NativeOutcomes(player) :
        /\ m = MsgNext => ControlsShown(config_manager)
        /\ \E r \in {HandleNext(player, native_ok)} :
            /\ HasRoom(Delivered(m, TRUE, r.task))
            /\ messages' = Delivered(m, TRUE, r.task)
            /\ ret' = [op |-> "handle_next", msg |-> m.msg, native_ok |-> native_ok,
                       cmds |-> r.cmds]
            /\ UNCHANGED <<track, bus, player, discovered_players, all_players, sink_inputs,
                           config_manager, config_store, player_info, all_players_info,
                           album_art_handle, current_art_url, player_album_arts, fetches>>

\* Message::Previous, from the popup's button, and Message::ScrollDown, from
\* the panel icon
DispatchPrevious ==
    \E m \in {MsgPrevious, MsgScrollDown}, native_ok \in NativeOutcomes(player) :
        /\ m = MsgPrevious => ControlsShown(config_manager)
        /\ \E r \in {HandlePrevious(player, native_ok)} :
            /\ HasRoom(Delivered(m, TRUE, r.task))
            /\ messages' = Delivered(m, TRUE, r.task)
            /\ ret' = [op |-> "handle_previous", msg |-> m.msg, native_ok |-> native_ok,
                       cmds |-> r.cmds]
            /\ UNCHANGED <<track, bus, player, discovered_players, all_players, sink_inputs,
                           config_manager, config_store, player_info, all_players_info,
                           album_art_handle, current_art_url, player_album_arts, fetches>>

\* the gestures, one handler at a time.  Message::PlayPause, from the popup's
\* button, and Message::MiddleClick, from the panel icon
OnPlayPause ==
    /\ ret = NoCall
    /\ \E m \in {MsgPlayPause, MsgMiddleClick}, native_ok \in NativeOutcomes(player) :
        /\ m = MsgPlayPause => ControlsShown(config_manager)
        /\ \E r \in {HandlePlayPause(player, bus, native_ok, player_info)} :
            /\ bus' = r.bus
            /\ ret' = [op |-> "handle_play_pause", msg |-> m.msg, native_ok |-> native_ok,
                       cmds |-> r.cmds, task |-> r.task]
            /\ UNCHANGED <<track, player, discovered_players, all_players, sink_inputs, config_manager, config_store, app_vars>>

\* Message::Next, from the popup's button, and Message::ScrollUp, from the
\* panel icon
OnNext ==
    /\ ret = NoCall
    /\ \E m \in {MsgNext, MsgScrollUp}, native_ok \in NativeOutcomes(player) :
        /\ m = MsgNext => ControlsShown(config_manager)
        /\ \E r \in {HandleNext(player, native_ok)} :
            /\ ret' = [op |-> "handle_next", msg |-> m.msg, native_ok |-> native_ok,
                       cmds |-> r.cmds, task |-> r.task]
            /\ UNCHANGED <<track, bus, player, discovered_players, all_players, sink_inputs, config_manager, config_store, app_vars>>

\* Message::Previous, from the popup's button, and Message::ScrollDown, from
\* the panel icon
OnPrevious ==
    /\ ret = NoCall
    /\ \E m \in {MsgPrevious, MsgScrollDown}, native_ok \in NativeOutcomes(player) :
        /\ m = MsgPrevious => ControlsShown(config_manager)
        /\ \E r \in {HandlePrevious(player, native_ok)} :
            /\ ret' = [op |-> "handle_previous", msg |-> m.msg, native_ok |-> native_ok,
                       cmds |-> r.cmds, task |-> r.task]
            /\ UNCHANGED <<track, bus, player, discovered_players, all_players, sink_inputs, config_manager, config_store, app_vars>>

\* Message::UpdatePlayerInfo(info), from the Task of handle_find_player
DispatchUpdatePlayerInfo ==
    \E m \in BagToSet(messages) :
        /\ m.msg = "UpdatePlayerInfo"
        /\ \E r \in {HandleUpdatePlayerInfo(m.info, current_art_url, album_art_handle)} :
            /\ HasRoom(Delivered(m, FALSE, r.task))
            /\ messages' = Delivered(m, FALSE, r.task)
            /\ player_info' = r.player_info
            /\ album_art_handle' = r.album_art_handle
            /\ current_art_url' = r.current_art_url
            /\ ret' = [op |-> "handle_update_player_info"]
            /\ UNCHANGED <<track, bus, player, discovered_players, all_players, sink_inputs,
                           config_manager, config_store, all_players_info,
                           player_album_arts, fetches>>

\* Message::UpdateStatus(status), from the Task of handle_play_pause
DispatchUpdateStatus ==
    \E m \in BagToSet(messages) :
        /\ m.msg = "UpdateStatus"
        /\ messages' = Delivered(m, FALSE, <<>>)
        /\ player_info' = HandleUpdateStatus(player_info, m.status)
        /\ ret' = [op |-> "handle_update_status"]
        /\ UNCHANGED <<track, bus, player, discovered_players, all_players, sink_inputs,
                       config_manager, config_store, all_players_info, album_art_handle,
                       current_art_url, player_album_arts, fetches>>

\* Message::VolumeChanged(volume), from the popup's slider
DispatchVolumeChanged ==
    \E volume \in SliderTargets, native_ok \in NativeOutcomes(player) :
        /\ ControlsShown(config_manager)
        /\ \E m \in MixerOutcomesOf(PanelOutputs, native_ok) :
            /\ native_ok \/ m[2] \in ValuesOrders(m[1])
            /\ \E r \in {HandleVolumeChanged(player, player_info, volume, native_ok,
                                            sink_inputs, m[1], m[2], m[3])} :
                /\ player_info' = r.player_info
                /\ sink_inputs' = r.sink_inputs
                /\ ret' = [op |-> "handle_volume_changed", handle |-> player,
                           volume |-> volume, native_ok |-> native_ok, ok |-> r.ok,
                           cmds |-> r.cmds, before |-> player_info.volume]
                /\ UNCHANGED <<track, bus, player, discovered_players, all_players, config_manager,
                               config_store, all_players_info, album_art_handle,
                               current_art_url, player_album_arts, messages, fetches>>

\* Message::UpdateAllPlayersInfo(list), from the Task of handle_find_player
DispatchUpdateAllPlayersInfo ==
    \E m \in BagToSet(messages) :
        /\ m.msg = "UpdateAllPlayersInfo"
        /\ \E r \in {HandleUpdateAllPlayersInfo(m.players_info, player_album_arts)} :
            /\ HasRoom(Delivered(m, FALSE, r.task))
            /\ messages' = Delivered(m, FALSE, r.task)
            /\ all_players_info' = r.all_players_info
            /\ ret' = [op |-> "handle_update_all_players_info"]
            /\ UNCHANGED <<track, bus, player, discovered_players, all_players, sink_inputs,
                           config_manager, config_store, player_info, album_art_handle,
                           current_art_url, player_album_arts, fetches>>

\* Message::VolumeChangedPlayer(bus_name, volume), from a card's slider
DispatchVolumeChangedPlayer ==
    \E bus_name \in CardsShown(config_manager, all_players_info), volume \in SliderTargets :
        \E native_ok \in NativeOutcomes(MapGet(all_players, bus_name)) :
            \E m \in MixerOutcomesOf(PanelOutputs, native_ok) :
                /\ native_ok \/ m[2] \in ValuesOrders(m[1])
                /\ \E r \in {HandleVolumeChangedPlayer(all_players, all_players_info, bus_name,
                                                      volume, native_ok, sink_inputs,
                                                      m[1], m[2], m[3])} :
                    /\ all_players_info' = r.all_players_info
                    /\ sink_inputs' = r.sink_inputs
                    /\ ret' = [op |-> "handle_volume_changed_player",
                               handle |-> MapGet(all_players, bus_name),
                               bus_name |-> bus_name, volume |-> volume,
                               native_ok |-> native_ok, ok |-> r.ok, cmds |-> r.cmds,
                               before |-> all_players_info]
                    /\ UNCHANGED <<track, bus, player, discovered_players, all_players,
                                   config_manager, config_store, player_info,
                                   album_art_handle, current_art_url, player_album_arts,
                                   messages, fetches>>

\* ------------------------------------------- app.rs: fetching album art
\* byte strings of the urls and paths the fetch is applied to
\* "file://"
SchemeFile == <<102, 105, 108, 101, 58, 47, 47>>

\* "http://"
SchemeHttp == <<104, 116, 116, 112, 58, 47, 47>>

\* "https://"
SchemeHttps == <<104, 116, 116, 112, 115, 58, 47, 47>>

\* "tmp"
NameTmp == <<116, 109, 112>>

\* "etc"
NameEtc == <<101, 116, 99>>

\* "passwd"
NamePasswd == <<112, 97, 115, 115, 119, 100>>

\* "link"
NameLink == <<108, 105, 110, 107>>

\* "cover"
NameCover == <<99, 111, 118, 101, 114>>

\* "tmpx"
NameTmpx == <<116, 109, 112, 120>>

\* ".."
NameUp == <<46, 46>>

\* "."
NameHere == <<46>>

\* "var"
NameVar == <<118, 97, 114>>

\* "home"
NameHome == <<104, 111, 109, 101>>

\* "u"
NameUser == <<117>>

\* "Music"
NameMusic == <<77, 117, 115, 105, 99>>

\* ".music"
NameDotMusic == <<46, 109, 117, 115, 105, 99>>

\* "Pictures"
NamePictures == <<80, 105, 99, 116, 117, 114, 101, 115>>

\* ".cache"
NameCache == <<46, 99, 97, 99, 104, 101>>

\* ".local"
NameLocal == <<46, 108, 111, 99, 97, 108>>

\* "share"
NameShare == <<115, 104, 97, 114, 101>>

\* "run"
NameRun == <<114, 117, 110>>

\* "1000"
NameUid == <<49, 48, 48, 48>>

\* '/'
Slash == 47

\* the longest path, in components, of the urls the fetch is applied to
MaxDepth == 3

\* MAX_IMAGE_SIZE, in bytes: 10 * 1024 * 1024
MaxImageSize == 10485760

\* str::trim_start_matches(p): every leading repetition of p is removed
RECURSIVE TrimStartMatches(_, _)
TrimStartMatches(s, p) ==
    IF StartsWith(s, p) THEN TrimStartMatches(SubSeq(s, Len(p) + 1, Len(s)), p) ELSE s

\* the components of a path string: the pieces between slashes, empty pieces
\* left out.  piece: the component being read
RECURSIVE Components(_, _)
Components(s, piece) ==
    IF s = <<>> THEN (IF piece = <<>> THEN <<>> ELSE <<piece>>)
    ELSE IF Head(s) = Slash
    THEN (IF piece = <<>> THEN <<>> ELSE <<piece>>) \o Components(Tail(s), <<>>)
    ELSE Components(Tail(s), Append(piece, Head(s)))

\* the environment: the directories dirs::* report and the process's working
\* directory, as component lists
HomeDir == <<NameHome, NameUser>>

Cwd == <<>>

\* the environment: the file system, by canonical path.  /tmp/link is a
\* symbolic link to /etc/passwd; /tmp/passwd is a file above the size cap
Fs ==
    (<<NameTmp>> :> [kind |-> "dir", size |-> 0, target |-> <<>>])
    @@ (<<NameEtc>> :> [kind |-> "dir", size |-> 0, target |-> <<>>])
    @@ (<<NameTmpx>> :> [kind |-> "dir", size |-> 0, target |-> <<>>])
    @@ (<<NameEtc, NamePasswd>> :> [kind |-> "file", size |-> 2048, target |-> <<>>])
    @@ (<<NameTmp, NameCover>> :> [kind |-> "file", size |-> 2048, target |-> <<>>])
    @@ (<<NameTmpx, NameCover>> :> [kind |-> "file", size |-> 2048, target |-> <<>>])
    @@ (<<NameTmp, NamePasswd>> :> [kind |-> "file", size |-> MaxImageSize + 1, target |-> <<>>])
    @@ (<<NameTmp, NameLink>> :> [kind |-> "symlink", size |-> 0,
                                  target |-> <<NameEtc, NamePasswd>>])
    @@ (<<NameTmp, NameEtc>> :> [kind |-> "symlink", size |-> 0, target |-> <<NameEtc>>])

\* the walk of fs::canonicalize: comps are the components left, at the
\* canonical path reached so far; None for an error (a missing entry, or a
\* component under something that is not a directory)
RECURSIVE Resolve(_, _)
Resolve(comps, at) ==
    IF comps = <<>> THEN Some(at)
    ELSE IF at # <<>> /\ Fs[at].kind # "dir" THEN None
    ELSE IF Head(comps) = NameHere THEN Resolve(Tail(comps), at)
    ELSE IF Head(comps) = NameUp
    THEN Resolve(Tail(comps), IF at = <<>> THEN at ELSE SubSeq(at, 1, Len(at) - 1))
    ELSE LET p == Append(at, Head(comps))
         IN  IF p \notin DOMAIN Fs THEN None
             ELSE IF Fs[p].kind = "symlink" THEN Resolve(Tail(comps), Fs[p].target)
             ELSE Resolve(Tail(comps), p)

\* tokio::fs::canonicalize(raw_path): symbolic links and ".." resolved, a
\* relative path taken from the working directory, the empty path an error
Canonicalize(raw_path) ==
    IF raw_path = <<>> THEN None
    ELSE Resolve(Components(raw_path, <<>>), IF Head(raw_path) = Slash THEN <<>> ELSE Cwd)

\* the safe_prefixes of is_safe_album_art_path: cache_dir, data_dir,
\* data_local_dir, runtime_dir, audio_dir, picture_dir, ~/Music, ~/.music,
\* /tmp and /var/tmp
SafePrefixes ==
    {HomeDir \o <<NameCache>>,
     HomeDir \o <<NameLocal, NameShare>>,
     <<NameRun, NameUser, NameUid>>,
     HomeDir \o <<NameMusic>>,
     HomeDir \o <<NamePictures>>,
     HomeDir \o <<NameDotMusic>>,
     <<NameTmp>>,
     <<NameVar, NameTmp>>}

\* the path string of a component list
RECURSIVE PathString(_)
PathString(comps) ==
    IF comps = <<>> THEN <<>> ELSE <<Slash>> \o Head(comps) \o PathString(Tail(comps))

\* the allow-list applied to the path as a string
IsSafeAlbumArtPathByString(path) ==
    \E prefix \in SafePrefixes : StartsWith(PathString(path), PathString(prefix))

\* CosmicAppletMusic::is_safe_album_art_path: Path::starts_with compares whole
\* components
IsSafeAlbumArtPath(path) ==
    \E prefix \in SafePrefixes : StartsWith(path, prefix)

\* the operations a fetch makes on the file system and the network
OpCanonicalize(raw_path, out) == [name |-> "canonicalize", path |-> raw_path, out |-> out]

OpRead(path) == [name |-> "read", path |-> path, out |-> None]

OpGet(url) == [name |-> "get", path |-> url, out |-> None]

\* image::Handle::from_bytes of what was read from a source
ImageHandle(source) == [bytes_of |-> source]

\* tokio::fs::read: the size of the file's contents, None for an error
ReadFile(path) == IF Fs[path].kind = "file" THEN Some(Fs[path].size) ELSE None

\* the fetch with the allow-list applied to the path as the url gives it, and
\* that path read
LoadImageFromUrlUnresolved(url, fetched) ==
    LET raw_path == TrimStartMatches(url, SchemeFile)
        lexical == Components(raw_path, <<>>)
    IN  IF StartsWith(url, SchemeFile) /\ IsSafeAlbumArtPath(lexical)
        THEN [handle |-> IF IsSome(Canonicalize(raw_path))
                         THEN Some(ImageHandle(Unwrap(Canonicalize(raw_path)))) ELSE None,
              ops |-> <<OpRead(lexical)>>]
        ELSE [handle |-> None, ops |-> <<>>]

\* CosmicAppletMusic::load_image_from_url.  fetched: the size of the body an
\* http(s) request returns, None when the request or the body fails.
\* Gives the handle and the operations made, in order
LoadImageFromUrl(url, fetched) ==
    IF StartsWith(url, SchemeFile)
    THEN LET raw_path == TrimStartMatches(url, SchemeFile)
             canonical == Canonicalize(raw_path)
             bytes == ReadFile(Unwrap(canonical))
         IN  IF ~IsSome(canonical)
             THEN [handle |-> None, ops |-> <<OpCanonicalize(raw_path, canonical)>>]
             ELSE IF ~IsSafeAlbumArtPath(Unwrap(canonical))
             THEN [handle |-> None, ops |-> <<OpCanonicalize(raw_path, canonical)>>]
             ELSE [handle |-> IF IsSome(bytes) /\ Unwrap(bytes) <= MaxImageSize
                              THEN Some(ImageHandle(Unwrap(canonical))) ELSE None,
                   ops |-> <<OpCanonicalize(raw_path, canonical), OpRead(Unwrap(canonical))>>]
    ELSE IF StartsWith(url, SchemeHttp) \/ StartsWith(url, SchemeHttps)
    THEN [handle |-> IF IsSome(fetched) /\ Unwrap(fetched) <= MaxImageSize
                     THEN Some(ImageHandle(url)) ELSE None,
          ops |-> <<OpGet(url)>>]
    ELSE [handle |-> None, ops |-> <<>>]

\* the names the paths of the urls are made of
PathNames == {NameTmp, NameEtc, NamePasswd, NameLink, NameCover, NameTmpx, NameUp}

\* the paths of up to MaxDepth names
UrlPaths == UNION {[1..n -> PathNames] : n \in 1..MaxDepth}

\* what comes before the path: file://, file:// twice, file:// and a relative
\* path, https://, and no scheme
UrlPrefixes ==
    {SchemeFile \o <<Slash>>, SchemeFile \o SchemeFile \o <<Slash>>, SchemeFile,
     SchemeHttps, <<Slash>>}

\* the path of a url, its names joined by slashes
RECURSIVE JoinPath(_)
JoinPath(comps) ==
    IF Len(comps) = 1 THEN comps[1] ELSE comps[1] \o <<Slash>> \o JoinPath(Tail(comps))

\* the art urls a session can report
ArtUrls == {prefix \o JoinPath(path) : prefix \in UrlPrefixes, path \in UrlPaths}

\* what an http(s) request can give: a failure, an image, a body above the cap
HttpOutcomes == {None, Some(2048), Some(MaxImageSize + 1)}

CallLoadImageFromUrl ==
    /\ ret = NoCall
    /\ \E url \in ArtUrls :
        \E fetched \in IF StartsWith(url, SchemeHttps) THEN HttpOutcomes ELSE {None} :
            \E r \in {LoadImageFromUrl(url, fetched)} :
                /\ ret' = [op |-> "load_image_from_url", url |-> url, fetched |-> fetched,
                           handle |-> r.handle, ops |-> r.ops]
                /\ UNCHANGED <<track, bus, player, discovered_players, all_players, sink_inputs,
                               config_manager, config_store, app_vars>>


\* ------------------------------------- app.rs: the single-player album art
\* the most fetches running at a time
MaxFetches == 2

\* what load_image_from_url gives for the http(s) url of a session: the image
\* behind the url, or None when the request fails
FetchResults(url) == {None, Some(ImageHandle(url))}

\* a running load_image_from_url future: the url it fetches and, for a card's
\* art, the bus name its result is delivered with
Fetch(target, url) == [target |-> target, url |-> url]

\* the message a fetch's result is delivered in
Loaded(f, handle) ==
    IF IsSome(f.target) THEN MsgAlbumArtLoadedPlayer(Unwrap(f.target), handle)
    ELSE MsgAlbumArtLoaded(handle)

\* CosmicAppletMusic::handle_album_art_loaded
HandleAlbumArtLoaded(handle) == [album_art_handle |-> handle, task |-> <<>>]

\* Message::LoadAlbumArt(url), from the Task of handle_update_player_info:
\* Task::perform starts the fetch
DispatchLoadAlbumArt ==
    \E m \in BagToSet(messages) :
        /\ m.msg = "LoadAlbumArt"
        /\ BagCardinality(fetches) < MaxFetches
        /\ messages' = Delivered(m, FALSE, <<>>)
        /\ fetches' = fetches (+) SetToBag({Fetch(None, m.url)})
        /\ ret' = [op |-> "handle_load_album_art"]
        /\ UNCHANGED <<track, bus, player, discovered_players, all_players, sink_inputs,
                       config_manager, config_store, player_info, all_players_info,
                       album_art_handle, current_art_url, player_album_arts>>

\* a running fetch completes, in any order with the others, and the runtime
\* holds the message with its result
CompleteFetch ==
    \E f \in BagToSet(fetches) :
        \E handle \in FetchResults(f.url) :
            /\ HasRoom(messages (+) SetToBag({Loaded(f, handle)}))
            /\ messages' = messages (+) SetToBag({Loaded(f, handle)})
            /\ fetches' = fetches (-) SetToBag({f})
            /\ ret' = NoCall
            /\ UNCHANGED <<track, bus, player, discovered_players, all_players, sink_inputs,
                           config_manager, config_store, player_info, all_players_info,
                           album_art_handle, current_art_url, player_album_arts>>

\* Message::AlbumArtLoaded(handle), from a completed fetch
DispatchAlbumArtLoaded ==
    \E m \in BagToSet(messages) :
        /\ m.msg = "AlbumArtLoaded"
        /\ \E r \in {HandleAlbumArtLoaded(m.handle)} :
            /\ messages' = Delivered(m, FALSE, r.task)
            /\ album_art_handle' = r.album_art_handle
            /\ ret' = [op |-> "handle_album_art_loaded"]
            /\ UNCHANGED <<track, bus, player, discovered_players, all_players, sink_inputs,
                           config_manager, config_store, player_info, all_players_info,
                           current_art_url, player_album_arts, fetches>>

\* ------------------------------------------- app.rs: the cards' album art
\* CosmicAppletMusic::handle_album_art_loaded_player: a result is filed under
\* the bus name, a failed fetch leaves the cache as it was
HandleAlbumArtLoadedPlayer(arts, bus_name, handle) ==
    [player_album_arts |-> IF IsSome(handle) THEN MapInsert(arts, bus_name, Unwrap(handle))
                           ELSE arts,
     task |-> <<>>]

\* Message::LoadAlbumArtPlayer(bus_name, url), from the Task of
\* handle_update_all_players_info: Task::perform starts the fetch
DispatchLoadAlbumArtPlayer ==
    \E m \in BagToSet(messages) :
        /\ m.msg = "LoadAlbumArtPlayer"
        /\ BagCardinality(fetches) < MaxFetches
        /\ messages' = Delivered(m, FALSE, <<>>)
        /\ fetches' = fetches (+) SetToBag({Fetch(Some(m.bus_name), m.url)})
        /\ ret' = [op |-> "handle_load_album_art_player", bus_name |-> m.bus_name,
                   url |-> m.url]
        /\ UNCHANGED <<bus, track, player, discovered_players, all_players, sink_inputs,
                       config_manager, config_store, player_info, all_players_info,
                       album_art_handle, current_art_url, player_album_arts>>

\* Message::AlbumArtLoadedPlayer(bus_name, handle), from a completed fetch
DispatchAlbumArtLoadedPlayer ==
    \E m \in BagToSet(messages) :
        /\ m.msg = "AlbumArtLoadedPlayer"
        /\ \E r \in {HandleAlbumArtLoadedPlayer(player_album_arts, m.bus_name, m.handle)} :
            /\ messages' = Delivered(m, FALSE, r.task)
            /\ player_album_arts' = r.player_album_arts
            /\ ret' = [op |-> "handle_album_art_loaded_player", bus_name |-> m.bus_name,
                       handle |-> m.handle]
            /\ UNCHANGED <<bus, track, player, discovered_players, all_players, sink_inputs,
                           config_manager, config_store, player_info, all_players_info,
                           album_art_handle, current_art_url, fetches>>

\* ------------------------------- music.rs: the per-player calls, called
\* the call a per-player transport method makes: on the handle filed under
\* bus_name, if there is one
TransportCmds(method, sessions, bus_name) ==
    IF bus_name \in DOMAIN sessions THEN <<MprisCall(method, sessions[bus_name])>> ELSE <<>>

CallPlayPausePlayer ==
    /\ ret = NoCall
    /\ \E bus_name \in DOMAIN bus :
        \E native_ok \in NativeOutcomes(MapGet(all_players, bus_name)) :
            \E r \in {PlayPausePlayer(all_players, bus_name, bus, native_ok)} :
                /\ bus' = r.bus
                /\ ret' = [op |-> "play_pause_player", bus_name |-> bus_name,
                           native_ok |-> native_ok, ok |-> r.ok,
                           cmds |-> TransportCmds("Player::play_pause", all_players, bus_name)]
                /\ UNCHANGED <<track, player, discovered_players, all_players, sink_inputs,
                               config_manager, config_store, app_vars>>

CallNextPlayer ==
    /\ ret = NoCall
    /\ \E bus_name \in DOMAIN bus :
        \E native_ok \in NativeOutcomes(MapGet(all_players, bus_name)) :
            /\ ret' = [op |-> "next_player", bus_name |-> bus_name, native_ok |-> native_ok,
                       ok |-> SkipPlayer(all_players, bus_name, native_ok),
                       cmds |-> TransportCmds("Player::next", all_players, bus_name)]
            /\ UNCHANGED <<track, bus, player, discovered_players, all_players, sink_inputs,
                           config_manager, config_store, app_vars>>

CallPreviousPlayer ==
    /\ ret = NoCall
    /\ \E bus_name \in DOMAIN bus :
        \E native_ok \in NativeOutcomes(MapGet(all_players, bus_name)) :
            /\ ret' = [op |-> "previous_player", bus_name |-> bus_name,
                       native_ok |-> native_ok,
                       ok |-> SkipPlayer(all_players, bus_name, native_ok),
                       cmds |-> TransportCmds("Player::previous", all_players, bus_name)]
            /\ UNCHANGED <<track, bus, player, discovered_players, all_players, sink_inputs,
                           config_manager, config_store, app_vars>>


Next ==
    \/ BusChange
    \/ TrackChange
    \/ Return
    \/ CallDiscoverAllPlayers
    \/ CallGetAllPlayersInfo
    \/ CallSetVolumePlayer
    \/ CallFindActivePlayer
    \/ CallFindSpecificPlayer
    \/ CallGetPlayerInfo
    \/ CallSetVolume
    \/ CallRefreshSinkInputs
    \/ CallFindSinkInputByName
    \/ CallSetSinkInputVolume
    \/ OnFindPlayer
    \/ OnDiscoverPlayers
    \/ OnPlayPausePlayer
    \/ OnNextPlayer
    \/ OnPreviousPlayer
    \/ OnToggleShowAllPlayers
    \/ OnToggleAutoDetect
    \/ OnSelectPlayer
    \/ OnToggleHideInactive
    \/ CallSetSelectedPlayer
    \/ CallSetAutoDetectNewPlayers
    \/ CallSetShowAllPlayers
    \/ CallSetHideInactivePlayers
    \/ CallAddDiscoveredPlayer
    \/ CallPlayPausePlayer
    \/ CallNextPlayer
    \/ CallPreviousPlayer
    \/ CallLoadImageFromUrl
    \/ DispatchLoadAlbumArt
    \/ CompleteFetch
    \/ DispatchAlbumArtLoaded
    \/ DispatchLoadAlbumArtPlayer
    \/ DispatchAlbumArtLoadedPlayer
    \/ OnPlayPause
    \/ OnNext
    \/ OnPrevious
    \/ DispatchFindPlayer
    \/ DispatchDiscoverPlayers
    \/ DispatchPlayPause
    \/ DispatchNext
    \/ DispatchPrevious
    \/ DispatchUpdatePlayerInfo
    \/ DispatchUpdateStatus
    \/ DispatchVolumeChanged
    \/ DispatchUpdateAllPlayersInfo
    \/ DispatchVolumeChangedPlayer
    \/ CallViewPlayerCard

\* the controller and the applet's handlers over it
Spec == Init /\ [][Next]_vars

\* the registry: discovery passes over a changing bus
NextDiscovery ==
    \/ BusChange
    \/ Return
    \/ CallDiscoverAllPlayers

SpecDiscovery == Init /\ [][NextDiscovery]_vars

\* the single-player path: selection and extraction over a changing bus
NextSingle ==
    \/ BusChange
    \/ Return
    \/ CallFindActivePlayer
    \/ CallFindSpecificPlayer
    \/ CallGetPlayerInfo

SpecSingle == Init /\ [][NextSingle]_vars

\* the volume chain, on the selected session and on a session of the map,
\* over a bus whose sessions come and go
NextVolume ==
    \/ BusPresenceChange
    \/ Return
    \/ CallDiscoverAllPlayers
    \/ CallFindActivePlayer
    \/ CallSetVolume
    \/ CallSetVolumePlayer

SpecVolume == Init /\ [][NextVolume]_vars

\* the applications whose sessions the aggregation is applied to
AggApps == {"firefox", "spotify", "mpv"}

\* a bus carrying n sessions, session k of application apps[k] with status
\* statuses[k]
BusOf(n, apps, statuses) ==
    [b \in {<<apps[k], k>> : k \in 1..n} |-> statuses[b[2]]]

\* the state after one successful discovery pass over a bus carrying up to
\* MaxSessions sessions of any applications and statuses
InitAggregate ==
    \E n \in 0..MaxSessions :
        \E apps \in [1..n -> AggApps], statuses \in [1..n -> PlaybackStatus] :
            LET r == DiscoverAllPlayers(TRUE, Some([k \in 1..n |-> <<apps[k], k>>]),
                                        BusOf(n, apps, statuses), EmptyMap, EmptyMap)
            IN  /\ bus = BusOf(n, apps, statuses)
                /\ player = None
                /\ track = 0
                /\ discovered_players = r.discovered_players
                /\ all_players = r.all_players
                /\ sink_inputs = EmptyMap
                /\ config_manager = None
                /\ config_store = None
                /\ InitAppVars
                /\ ret = NoCall

NextAggregate == CallGetAllPlayersInfo

\* get_all_players_info applied to every session map of up to MaxSessions
\* sessions, in every iteration order, under every mixer listing
SpecAggregate == InitAggregate /\ [][NextAggregate]_vars

\* the mixer adapter on its own: refreshes, lookups and volume writes
NextMixer ==
    \/ Return
    \/ CallRefreshSinkInputs
    \/ CallFindSinkInputByName
    \/ CallSetSinkInputVolume

SpecMixer == Init /\ [][NextMixer]_vars

\* the applet's discovery cycle in either mode: timer ticks, the discover
\* button and the per-player transport buttons, over sessions that come and go
NextApp ==
    \/ BusPresenceChange
    \/ Return
    \/ OnFindPlayer
    \/ OnDiscoverPlayers
    \/ OnPlayPausePlayer
    \/ OnNextPlayer
    \/ OnPreviousPlayer

SpecApp == InitApp /\ [][NextApp]_vars

\* CosmicAppletMusic::init when ConfigManager::new failed: no ConfigManager
InitNoStore ==
    /\ bus = [b \in AppBusNames |-> Absent]
    /\ player = None
    /\ track = 0
    /\ discovered_players = EmptyMap
    /\ all_players = EmptyMap
    /\ sink_inputs = EmptyMap
    /\ config_manager = None
    /\ config_store = None
    /\ InitAppVars
    /\ ret = [op |-> "init", calls |-> <<>>, task |-> <<MsgDiscoverPlayers, MsgFindPlayer>>]

\* the applet without a configuration store: timer ticks, discovery and the
\* settings messages, over sessions that come and go
NextNoStore ==
    \/ BusPresenceChange
    \/ Return
    \/ OnFindPlayer
    \/ OnDiscoverPlayers
    \/ OnToggleAutoDetect
    \/ OnSelectPlayer
    \/ OnToggleShowAllPlayers
    \/ OnToggleHideInactive

SpecNoStore == InitNoStore /\ [][NextNoStore]_vars

\* the entries the store can hold when the applet starts: none, or a saved one
StoredAtInit == {None, Some([AppConfigDefault EXCEPT !.selected_player = Some(IdSpotify)])}

\* the applet's ConfigManager once ConfigManager::new has returned Ok
InitConfig ==
    /\ bus = [b \in BusNames |-> Absent]
    /\ player = None
    /\ track = 0
    /\ discovered_players = EmptyMap
    /\ all_players = EmptyMap
    /\ sink_inputs = EmptyMap
    /\ \E existing \in StoredAtInit :
        \E n \in {ConfigManagerNew(existing, TRUE)} :
            /\ config_manager = n.config_manager
            /\ config_store = n.config_store
    /\ InitAppVars
    /\ ret = NoCall

\* the ConfigManager on its own: every sequence of setter calls, each store
\* write succeeding or failing
NextConfig ==
    \/ Return
    \/ CallSetSelectedPlayer
    \/ CallSetAutoDetectNewPlayers
    \/ CallSetShowAllPlayers
    \/ CallSetHideInactivePlayers
    \/ CallAddDiscoveredPlayer

SpecConfig == InitConfig /\ [][NextConfig]_vars

\* two instances of the browser, and nothing else, on the bus
InitPlayers ==
    /\ bus = [b \in FirefoxBusNames |-> Absent]
    /\ player = None
    /\ track = 0
    /\ discovered_players = EmptyMap
    /\ all_players = EmptyMap
    /\ sink_inputs = EmptyMap
    /\ config_manager = None
    /\ config_store = None
    /\ InitAppVars
    /\ ret = NoCall

\* discovery passes and the per-player calls over two sessions of one identity
NextPlayers ==
    \/ BusChange
    \/ Return
    \/ CallDiscoverAllPlayers
    \/ CallPlayPausePlayer
    \/ CallNextPlayer
    \/ CallPreviousPlayer
    \/ CallSetVolumePlayer

SpecPlayers == InitPlayers /\ [][NextPlayers]_vars

\* the fetch applied to every art url
NextFetch ==
    \/ Return
    \/ CallLoadImageFromUrl

SpecFetch == Init /\ [][NextFetch]_vars

\* the session whose art the panel shows: a player with cover art
ArtBusNames == {<<"spotify", 0>>}

InitArt == InitOver(ArtBusNames, {Some(AppConfigDefault)})

\* the panel's album art over a player that comes and goes: the timer, the
\* messages of the handlers' Tasks, and the fetches, completing in any order
NextArt ==
    \/ BusPresenceChange
    \/ DispatchFindPlayer
    \/ DispatchDiscoverPlayers
    \/ DispatchUpdatePlayerInfo
    \/ DispatchLoadAlbumArt
    \/ CompleteFetch
    \/ DispatchAlbumArtLoaded

SpecArt == InitArt /\ [][NextArt]_vars

\* the configuration the cards' art is followed under: multi-player mode
CacheConfigs == {Some([AppConfigDefault EXCEPT !.show_all_players = TRUE])}

InitCache == InitOver(ArtBusNames, CacheConfigs)

\* the cards' album art over a player that comes and goes and moves from track
\* to track: the timer, the messages of the handlers' Tasks, and the fetches,
\* completing in any order
NextCache ==
    \/ BusPresenceChange
    \/ TrackChange
    \/ DispatchFindPlayer
    \/ DispatchUpdateAllPlayersInfo
    \/ DispatchLoadAlbumArtPlayer
    \/ CompleteFetch
    \/ DispatchAlbumArtLoadedPlayer

SpecCache == InitCache /\ [][NextCache]_vars

\* CosmicAppletMusic::init over a bus whose sessions stay as they are, in
\* single-player mode with no player selected
InitStatus ==
    /\ bus \in [PanelBusNames -> PlaybackStatus \cup {Absent}]
    /\ player = None
    /\ track = 0
    /\ discovered_players = EmptyMap
    /\ all_players = EmptyMap
    /\ sink_inputs = EmptyMap
    /\ config_manager = Some(AppConfigDefault)
    /\ config_store = config_manager
    /\ player_info = PlayerInfoDefault
    /\ all_players_info = <<>>
    /\ album_art_handle = None
    /\ current_art_url = None
    /\ player_album_arts = EmptyMap
    /\ messages = TaskBag(<<MsgDiscoverPlayers, MsgFindPlayer>>)
    /\ fetches = EmptyBag
    /\ ret = [op |-> "init"]

\* the displayed status around play/pause while nothing but the applet acts on
\* the sessions: the timer, the play/pause gesture and the messages of the
\* handlers' Tasks, delivered in any order
NextStatus ==
    \/ DispatchFindPlayer
    \/ DispatchDiscoverPlayers
    \/ DispatchPlayPause
    \/ DispatchUpdatePlayerInfo
    \/ DispatchUpdateStatus

SpecStatus == InitStatus /\ [][NextStatus]_vars

\* CosmicAppletMusic::init with the defaults loaded from the store
InitEnabled ==
    /\ bus = [b \in AppBusNames |-> Absent]
    /\ player = None
    /\ track = 0
    /\ discovered_players = EmptyMap
    /\ all_players = EmptyMap
    /\ sink_inputs = EmptyMap
    /\ config_manager = Some(AppConfigDefault)
    /\ config_store = config_manager
    /\ InitAppVars
    /\ ret = [op |-> "init", calls |-> <<>>, task |-> <<MsgDiscoverPlayers, MsgFindPlayer>>]

\* the messages whose handlers take the ConfigManager mutably: discovery and
\* the four settings messages, over a bus whose sessions come and go
NextEnabled ==
    \/ BusPresenceChange
    \/ Return
    \/ OnDiscoverPlayers
    \/ OnToggleAutoDetect
    \/ OnSelectPlayer
    \/ OnToggleHideInactive

SpecEnabled == InitEnabled /\ [][NextEnabled]_vars

\* the longest run of one-byte characters a text starts with, the number of
\* such lengths tried below it, and the most multi-byte characters that follow
MaxPad == 26

PadSpan == 4

MaxWide == 3

RECURSIVE Repeat(_, _)
Repeat(c, n) == IF n = 0 THEN <<>> ELSE c \o Repeat(c, n - 1)

\* UTF-8 characters of two, three and four bytes: e with acute accent, a CJK
\* ideograph, a musical note
WideChars == {<<195, 169>>, <<230, 151, 165>>, <<240, 159, 142, 181>>}

\* titles and artists, as UTF-8 bytes: a run of the letter a, then a run of
\* one multi-byte character
CardTexts ==
    {Repeat(<<97>>, n) \o Repeat(c, m) :
        n \in (MaxPad - PadSpan)..MaxPad, c \in WideChars, m \in 0..MaxWide}

\* the list holds one player, with any title and any artist
InitCard ==
    /\ bus = [b \in AppBusNames |-> Absent]
    /\ player = None
    /\ track = 0
    /\ discovered_players = EmptyMap
    /\ all_players = EmptyMap
    /\ sink_inputs = EmptyMap
    /\ config_manager = None
    /\ config_store = None
    /\ player_info = PlayerInfoDefault
    /\ \E title \in CardTexts, artist \in CardTexts :
        all_players_info = <<[PlayerInfoDefault EXCEPT !.title = title, !.artist = artist]>>
    /\ album_art_handle = None
    /\ current_art_url = None
    /\ player_album_arts = EmptyMap
    /\ messages = EmptyBag
    /\ fetches = EmptyBag
    /\ ret = NoCall

NextCard == CallViewPlayerCard \/ Return

SpecCard == InitCard /\ [][NextCard]_vars

\* the panel's gestures across changes of mode: sessions that come and go, the
\* settings checkbox, the timer and the gestures on the icon, one handler at a
\* time
NextSwitch ==
    \/ BusPresenceChange
    \/ Return
    \/ OnFindPlayer
    \/ OnToggleShowAllPlayers
    \/ OnPlayPause
    \/ OnNext
    \/ OnPrevious

SpecSwitch == InitApp /\ [][NextSwitch]_vars

\* the panel over one player that comes and goes, with no store or with the
\* default settings: the timer, the gestures on the icon and the messages the
\* handlers' Tasks produce
NextPanel ==
    \/ BusPresenceChange
    \/ DispatchFindPlayer
    \/ DispatchDiscoverPlayers
    \/ DispatchPlayPause
    \/ DispatchNext
    \/ DispatchPrevious
    \/ DispatchUpdatePlayerInfo
    \/ DispatchUpdateStatus

SpecPanel == InitPanel /\ [][NextPanel]_vars

\* the popup's single-player controls over the selected player, before the
\* runtime delivers init's DiscoverPlayers: the timer, the skip buttons and
\* gestures, the volume slider and the messages the handlers' Tasks produce
NextControls ==
    \/ BusPresenceChange
    \/ DispatchFindPlayer
    \/ DispatchNext
    \/ DispatchPrevious
    \/ DispatchUpdatePlayerInfo
    \/ DispatchVolumeChanged

SpecControls == InitControls /\ [][NextControls]_vars

\* the popup in either mode: the timer, the discover button, the cards'
\* sliders and the messages the handlers' Tasks produce
InitCards == InitWith(CardsConfigs)

NextCards ==
    \/ BusPresenceChange
    \/ DispatchFindPlayer
    \/ DispatchDiscoverPlayers
    \/ DispatchUpdatePlayerInfo
    \/ DispatchUpdateAllPlayersInfo
    \/ DispatchVolumeChangedPlayer

SpecCards == InitCards /\ [][NextCards]_vars


\* ================================================================ claims
\* the identities of the handles a session map holds
HandleIdentities(sessions) == {sessions[b].identity : b \in DOMAIN sessions}

IsDiscover(r) == r.op = "discover_all_players"

\* a discovery pass that could not enumerate: no finder, or find_all errored
EnumerationFailed(r) == IsDiscover(r) /\ ~(r.finder_ok /\ r.found_ok)

\* C1 (as claimed): when discover_all_players cannot enumerate the sessions
\* (the finder cannot be created, or find_all errors), both maps hold what
\* they held before the call and the call returns an error.
C1_Claim ==
    [][EnumerationFailed(ret')
        => /\ discovered_players' = discovered_players
           /\ all_players' = all_players
           /\ ~ret'.ok]_vars

\* C2 (as claimed): in every reachable state the identities of the discovery
\* map are those of the handles of the session map, and a pass whose
\* enumeration fails leaves both maps empty.
C2_Claim ==
    /\ DOMAIN discovered_players = HandleIdentities(all_players)
    /\ EnumerationFailed(ret) => discovered_players = EmptyMap /\ all_players = EmptyMap

\* in every state the two maps carry the same identities, and right after a
\* pass whose find_all errored both are empty
C2_Inv ==
    /\ DOMAIN discovered_players = HandleIdentities(all_players)
    /\ (IsDiscover(ret) /\ ret.finder_ok /\ ~ret.found_ok)
        => discovered_players = EmptyMap /\ all_players = EmptyMap

\* a pass whose finder could not be created changes neither map
C2_Step ==
    (IsDiscover(ret') /\ ~ret'.finder_ok)
        => discovered_players' = discovered_players /\ all_players' = all_players

\* C2 (amended): in every reachable state the identities of the discovery map
\* are those of the handles of the session map; a pass whose find_all query
\* errors leaves both maps empty, and a pass whose bus finder cannot be
\* created leaves both maps as they were.
C2_Thm == []C2_Inv /\ [][C2_Step]_vars

\* a pass whose finder could not be created has kept a non-empty pair of maps,
\* two handles sharing one identity among them
C2_Witness ==
    /\ IsDiscover(ret) /\ ~ret.finder_ok
    /\ Cardinality(DOMAIN all_players) > Cardinality(DOMAIN discovered_players)
    /\ discovered_players # EmptyMap

\* C3 (as claimed): after find_specific_player(name) returns, if no exposed
\* session has an identity equal to name, the selected handle is empty,
\* whatever was selected before and however the lookup came up empty.
C3_Claim ==
    (ret.op = "find_specific_player"
     /\ \A b \in Exposed : IdentityOf(b) # ret.player_name)
        => player = None

\* ---------------------------------------------------------- aggregation
IsAggregation(r) == r.op = "get_all_players_info"

\* the entries of a list whose lower-cased identity contains "firefox"
FirefoxEntries(list) ==
    {k \in 1..Len(list) : Contains(ToLower(list[k].identity), FirefoxNeedle)}

\* the priority the claims give a status: Playing < Paused < Stopped
Priority(status) == IF status = Playing THEN 0 ELSE IF status = Paused THEN 1 ELSE 2

\* how many entries of list equal x
Count(list, x) == Cardinality({k \in 1..Len(list) : list[k] = x})

\* C4: for every session map holding two or more Firefox-identified
\* sessions, get_all_players_info returns exactly one Firefox-identified
\* entry, and its status is the minimum by priority (Playing < Paused <
\* Stopped) over the statuses of the map's Firefox-identified sessions.
C4_Thm ==
    (IsAggregation(ret) /\ Cardinality(FirefoxEntries(ret.extracted)) >= 2)
        => /\ Cardinality(FirefoxEntries(ret.out)) = 1
           /\ \A k \in FirefoxEntries(ret.out), j \in FirefoxEntries(ret.extracted) :
                Priority(ret.out[k].status) <= Priority(ret.extracted[j].status)

\* three Firefox sessions with three statuses, the playing one iterated last
C4_Witness ==
    /\ IsAggregation(ret)
    /\ Len(ret.extracted) = 3
    /\ FirefoxEntries(ret.extracted) = {1, 2, 3}
    /\ ret.extracted[1].status = Stopped
    /\ ret.extracted[2].status = Paused
    /\ ret.extracted[3].status = Playing
    /\ Len(ret.out) = 1 /\ ret.out[1] = ret.extracted[3]

\* C5: whatever the iteration order of the session map, the list returned by
\* get_all_players_info is sorted ascending by lower-cased identity.
C5_Thm ==
    IsAggregation(ret)
        => \A k \in 1..(Len(ret.out) - 1) :
                ~StrLess(ToLower(ret.out[k + 1].identity), ToLower(ret.out[k].identity))

\* "Spotify", "mpv", "Firefox" iterated in an order that neither the bytes
\* nor the lower-cased identities sort, and returned as Firefox, mpv, Spotify
C5_Witness ==
    /\ IsAggregation(ret)
    /\ Len(ret.extracted) = 3 /\ Len(ret.out) = 3
    /\ ret.extracted[1].identity = IdSpotify
    /\ ret.extracted[2].identity = IdMpv
    /\ ret.extracted[3].identity = IdFirefox
    /\ ret.out[1].identity = IdFirefox
    /\ ret.out[2].identity = IdMpv
    /\ ret.out[3].identity = IdSpotify

\* C6: for every session map with zero or one Firefox-identified session, the
\* entries returned are, as a multiset, the per-session snapshots: none
\* dropped, none added, none altered.
C6_Thm ==
    (IsAggregation(ret) /\ Cardinality(FirefoxEntries(ret.extracted)) <= 1)
        => /\ Len(ret.out) = Len(ret.extracted)
           /\ \A k \in 1..Len(ret.extracted) :
                Count(ret.out, ret.extracted[k]) = Count(ret.extracted, ret.extracted[k])

\* one Firefox session among three sessions, all three returned
C6_Witness ==
    /\ IsAggregation(ret)
    /\ Len(ret.extracted) = 3
    /\ Cardinality(FirefoxEntries(ret.extracted)) = 1
    /\ Len(ret.out) = 3

\* the session map {A: "Firefox", Playing; B: "Firefox", Paused;
\* C: "Spotify", Stopped}: a, b, c are the places of A, B, C in the iteration
Scenario(a, b, c) ==
    /\ IsAggregation(ret)
    /\ Len(ret.extracted) = 3
    /\ {a, b, c} = {1, 2, 3}
    /\ ret.extracted[a].identity = IdFirefox /\ ret.extracted[a].status = Playing
    /\ ret.extracted[b].identity = IdFirefox /\ ret.extracted[b].status = Paused
    /\ ret.extracted[c].identity = IdSpotify /\ ret.extracted[c].status = Stopped

\* C7 (as claimed): for that session map the aggregation returns [C, A].
C7_Claim ==
    \A a, b, c \in 1..3 :
        Scenario(a, b, c) => ret.out = <<ret.extracted[c], ret.extracted[a]>>

\* C7 (amended): for that session map the aggregation returns [A, C], the
\* playing Firefox session first and the Spotify session second, in every
\* iteration order.
C7_Thm ==
    \A a, b, c \in 1..3 :
        Scenario(a, b, c) => ret.out = <<ret.extracted[a], ret.extracted[c]>>

\* the scenario with the paused tab iterated first and the playing tab last
C7_Witness == Scenario(3, 1, 2)

\* -------------------------------------------------------- the volume chain
IsVolumeSet(r) == r.op \in {"set_volume", "set_volume_player"}

\* the mixer's set command is among the commands of the call
IssuedMixerSet(r) ==
    \E k \in 1..Len(r.cmds) : r.cmds[k].name = "pactl set-sink-input-volume"

\* some stream of the mixer map (as the call left it) matches the identity in
\* either direction, lower-cased
MixerMatch(identity) ==
    \E i \in DOMAIN sink_inputs :
        LET name == ToLower(sink_inputs[i].application_name)
        IN  Contains(name, ToLower(identity)) \/ Contains(ToLower(identity), name)

\* C8: for a session whose native volume-set call fails and for which the
\* mixer has no matching stream, set_volume and set_volume_player return
\* success and issue no mixer volume-set command.
C8_Thm ==
    (IsVolumeSet(ret) /\ IsSome(ret.handle) /\ ~ret.native_ok
     /\ ~MixerMatch(Unwrap(ret.handle).identity))
        => ret.ok /\ ~IssuedMixerSet(ret)

\* a per-player request for Spotify failed natively while the mixer lists
\* only the browser's stream
C8_Witness ==
    /\ ret.op = "set_volume_player"
    /\ IsSome(ret.handle) /\ Unwrap(ret.handle).identity = IdSpotify
    /\ ~ret.native_ok
    /\ sink_inputs # EmptyMap
    /\ ~MixerMatch(IdSpotify)
    /\ ret.ok

\* C9 (as claimed): a volume-set request never yields an error, whatever the
\* session, the target and the outcomes of the native call and of the mixer
\* commands.
C9_Claim == IsVolumeSet(ret) => ret.ok

\* C9 (amended): a volume-set request yields an error exactly when the native
\* call fails, a mixer stream matches the session's identity and the mixer's
\* volume-set command fails; in every other case it returns success.
C9_Thm ==
    IsVolumeSet(ret)
        => (~ret.ok <=> /\ IsSome(ret.handle)
                        /\ ~ret.native_ok
                        /\ MixerMatch(Unwrap(ret.handle).identity)
                        /\ ~ret.run_ok)

\* set_volume returned an error: the mixer's set command was issued and failed
C9_Witness ==
    /\ ret.op = "set_volume"
    /\ ~ret.ok
    /\ IssuedMixerSet(ret)

\* a volume-set call whose native call succeeded returns success, has issued
\* the native call and nothing else, and has left the mixer map alone
C10_Step ==
    (IsVolumeSet(ret') /\ ret'.native_ok)
        => /\ ret'.ok
           /\ Len(ret'.cmds) = 1
           /\ ret'.cmds[1].name = "Player::set_volume"
           /\ sink_inputs' = sink_inputs

\* C10: when the native volume-set call returns without error the chain stops
\* there: success, no mixer refresh, no mixer match, no mixer volume-set
\* command and no read-back of the volume.
C10_Thm == [][C10_Step]_vars

\* the native call succeeded for a session that a stored mixer stream matches
C10_Witness ==
    /\ ret.op = "set_volume"
    /\ ret.native_ok
    /\ MixerMatch(Unwrap(ret.handle).identity)
    /\ Len(ret.cmds) = 1

\* ------------------------------------------------------ the mixer adapter
\* the record-start lines of a listing
HeaderLines(lines) ==
    {k \in 1..Len(lines) : StartsWith(Trim(lines[k]), SinkInputPrefix)}

\* the index a record-start line carries, if it is a number
IndexAt(lines, k) ==
    ParseU32(SubSeq(Trim(lines[k]), Len(SinkInputPrefix) + 1, Len(Trim(lines[k]))))

\* the record-start lines with a parsable index
RecordLines(lines) == {k \in HeaderLines(lines) : IsSome(IndexAt(lines, k))}

\* the indexes a listing lists
ListedIndexes(lines) == {Unwrap(IndexAt(lines, k)) : k \in RecordLines(lines)}

\* the last record-start line that carries index i
LastRecordLine(lines, i) ==
    CHOOSE k \in RecordLines(lines) :
        /\ Unwrap(IndexAt(lines, k)) = i
        /\ \A j \in RecordLines(lines) : Unwrap(IndexAt(lines, j)) = i => j <= k

\* the lines of the record that starts at line k: up to the next record-start
\* line, or to the end of the listing
RecordBody(lines, k) ==
    LET later == {j \in HeaderLines(lines) : j > k}
        end == IF later = {} THEN Len(lines)
               ELSE (CHOOSE j \in later : \A l \in later : j <= l) - 1
    IN  SubSeq(lines, k + 1, end)

\* a volume line whose percentage parses: the value does not depend on the
\* volume held before
VolumeParses(line) ==
    /\ StartsWith(Trim(line), VolumePrefix)
    /\ ParseVolume(Trim(line), 0) = ParseVolume(Trim(line), 1)

\* the volume a record's own lines give: that of its last volume field that
\* parses, 1.0 when it has none
BodyVolume(body) ==
    LET vs == {j \in 1..Len(body) : VolumeParses(body[j])}
    IN  IF vs = {} THEN 100
        ELSE ParseVolume(Trim(body[CHOOSE j \in vs : \A l \in vs : l <= j]), 0)

\* the name a record's own lines give: that of its last name field, between
\* the quotes, and the empty name when it has none
BodyName(body) ==
    LET ns == {j \in 1..Len(body) : StartsWith(Trim(body[j]), AppNamePrefix)}
    IN  IF ns = {} THEN <<>>
        ELSE ParseAppName(Trim(body[CHOOSE j \in ns : \A l \in ns : l <= j]))

IsRefresh(r) == r.op = "refresh_sink_inputs"

\* C11 (as claimed): a mixer volume-set command is issued by the volume chain
\* only after a native-call error and in the order refresh, match, set, and
\* the index it is given appears in the listing obtained by the refresh of
\* that same call.
C11_Claim ==
    (IsVolumeSet(ret) /\ IssuedMixerSet(ret))
        => /\ ~ret.native_ok
           /\ [k \in 1..Len(ret.cmds) |-> ret.cmds[k].name]
                = <<"Player::set_volume", "pactl list sink-inputs",
                    "pactl set-sink-input-volume">>
           /\ ret.output.ok
           /\ ret.cmds[3].target[2] \in ListedIndexes(ret.output.lines)

\* C12: the mixer volume write clamps its target to [0.0, 1.5] before it
\* converts it to a percentage: a target above 1.5 issues the command of 1.5
\* (150%), a target below 0 the command of 0 (0%), and the percentage sent is
\* always in 0..150.
C12_Thm ==
    ret.op = "set_sink_input_volume"
        => /\ ret.cmd.percent \in 0..150
           /\ ret.volume > 150
                => /\ ret.cmd = SetSinkInputVolume(ret.index, 150, ret.run_ok).cmd
                   /\ ret.cmd.percent = 150
           /\ ret.volume < 0
                => /\ ret.cmd = SetSinkInputVolume(ret.index, 0, ret.run_ok).cmd
                   /\ ret.cmd.percent = 0

\* a write of 1.75 to stream 12 went out as 150%
C12_Witness ==
    /\ ret.op = "set_sink_input_volume"
    /\ ret.index = 12
    /\ ret.volume = 175
    /\ ret.cmd.percent = 150

\* a refresh whose listing command failed returns an error and leaves the map
C13_Step ==
    (IsRefresh(ret') /\ ~ret'.output.ok)
        => ~ret'.ok /\ sink_inputs' = sink_inputs

\* C13: when the mixer listing command exits nonzero or cannot be run,
\* refresh_sink_inputs returns an error and the stored index->record map is
\* what it was before the call.
C13_Thm == [][C13_Step]_vars

\* a failed refresh has left a map holding two streams
C13_Witness ==
    /\ IsRefresh(ret) /\ ~ret.output.ok /\ ~ret.ok
    /\ Cardinality(DOMAIN sink_inputs) = 2

\* C14: after every successful refresh_sink_inputs the map holds exactly the
\* records of the listing just parsed: one per record-start line with a
\* parsable index, the last one winning when an index repeats, and none left
\* over from an earlier refresh.
C14_Thm ==
    (IsRefresh(ret) /\ ret.ok)
        => /\ DOMAIN sink_inputs = ListedIndexes(ret.output.lines)
           /\ \A i \in DOMAIN sink_inputs :
                LET body == RecordBody(ret.output.lines,
                                       LastRecordLine(ret.output.lines, i))
                IN  sink_inputs[i] = AudioSinkInput(i, BodyName(body), BodyVolume(body))

\* the listing with index 12 twice was parsed: one record, the later one
C14_Witness ==
    /\ IsRefresh(ret) /\ ret.ok
    /\ ret.output = ListingRepeat
    /\ DOMAIN sink_inputs = {12}
    /\ ToLower(sink_inputs[12].application_name) = ToLower(IdSpotify)

\* C15: when the listing holds a record with no volume field, or with one
\* whose percentage does not parse, the refresh succeeds and the record is
\* stored with volume 1.0, whatever the volume of the records before it.
C15_Thm ==
    (IsRefresh(ret) /\ ret.output.ok)
        => /\ ret.ok
           /\ \A i \in ListedIndexes(ret.output.lines) :
                LET body == RecordBody(ret.output.lines,
                                       LastRecordLine(ret.output.lines, i))
                IN  (\A j \in 1..Len(body) : ~VolumeParses(body[j]))
                        => i \in DOMAIN sink_inputs /\ sink_inputs[i].volume = 100

\* stream 12, whose volume field carries no percentage, follows a stream at
\* 180% and is stored at 1.0
C15_Witness ==
    /\ IsRefresh(ret) /\ ret.ok
    /\ ret.output = ListingNoVolume
    /\ sink_inputs[7].volume = 180
    /\ sink_inputs[12].volume = 100

\* ------------------------------------------------------------- extraction
\* the stored streams that match a pattern: the stream's lower-cased name
\* contains the lower-cased pattern, or the other way round
MatchingStreams(pattern) ==
    {i \in DOMAIN sink_inputs :
        \/ Contains(ToLower(sink_inputs[i].application_name), ToLower(pattern))
        \/ Contains(ToLower(pattern), ToLower(sink_inputs[i].application_name))}

\* get_player_info has run on a selected session
IsSnapshot == ret.op = "get_player_info" /\ IsSome(player)

\* C16 (as claimed): extraction never fails and every field has its default
\* when its query errors: title "Unknown", artist "Unknown" and no art for the
\* metadata, Stopped for the status, 0.5 for the native volume when no mixer
\* stream matches.
C16_Claim ==
    IsSnapshot
        => LET h == Unwrap(player)
           IN  /\ ~IsSome(GetMetadata(bus, h))
                    => /\ ret.out.title = "Unknown"
                       /\ ret.out.artist = "Unknown"
                       /\ ret.out.art_url = None
               /\ ~IsSome(GetPlaybackStatus(bus, h)) => ret.out.status = Stopped
               /\ (~IsSome(GetVolume(bus, h)) /\ MatchingStreams(h.identity) = {})
                    => ret.out.volume = 50

\* C16 (amended): extraction never fails and every field has its default
\* when its query errors: title "Unknown", artist "Unknown Artist" and no art
\* for the metadata, Stopped for the status, 0.5 for the native volume when
\* no mixer stream matches.
C16_Thm ==
    IsSnapshot
        => LET h == Unwrap(player)
           IN  /\ ~IsSome(GetMetadata(bus, h))
                    => /\ ret.out.title = "Unknown"
                       /\ ret.out.artist = "Unknown Artist"
                       /\ ret.out.art_url = None
               /\ ~IsSome(GetPlaybackStatus(bus, h)) => ret.out.status = Stopped
               /\ (~IsSome(GetVolume(bus, h)) /\ MatchingStreams(h.identity) = {})
                    => ret.out.volume = 50

\* the snapshot of a Spotify session that has left the bus, no stream matching
C16_Witness ==
    /\ IsSnapshot
    /\ Unwrap(player).identity = IdSpotify
    /\ bus[Unwrap(player).bus_name] = Absent
    /\ MatchingStreams(IdSpotify) = {}
    /\ ret.out.artist = "Unknown Artist"
    /\ ret.out.status = Stopped
    /\ ret.out.volume = 50

\* C17: whenever a mixer stream matches the session's identity the volume of
\* the extracted PlayerInfo is that stream's volume, whether the native read
\* succeeded or failed; when no stream matches it is the native volume, or
\* 0.5 when the native read failed.
C17_Thm ==
    IsAggregation(ret)
        => \A k \in 1..Len(ret.extracted) :
            LET e == ret.extracted[k]
                native == GetVolume(bus, all_players[e.bus_name])
            IN  IF MatchingStreams(e.identity) # {}
                THEN \E i \in MatchingStreams(e.identity) : e.volume = sink_inputs[i].volume
                ELSE e.volume = (IF IsSome(native) THEN Unwrap(native) ELSE 50)

\* a Spotify session whose native volume reads 0.8 is reported at the 1.8 of
\* the one stream that matches it, next to a browser session
C17_Witness ==
    /\ IsAggregation(ret)
    /\ Cardinality(DOMAIN sink_inputs) = 2
    /\ \E k \in 1..Len(ret.extracted) :
        /\ ret.extracted[k].identity = IdSpotify
        /\ GetVolume(bus, all_players[ret.extracted[k].bus_name]) = Some(80)
        /\ Cardinality(MatchingStreams(IdSpotify)) = 1
        /\ ret.extracted[k].volume = 180

\* C18: find_sink_input_by_name(identity) returns a stored stream if and only
\* if some stored stream's lower-cased name contains the lower-cased identity
\* or the lower-cased identity contains that name; the stream returned
\* satisfies the condition, and None is returned when none does.
C18_Thm ==
    ret.op = "find_sink_input_by_name"
        => /\ IsSome(ret.out) <=> MatchingStreams(ret.app_name_pattern) # {}
           /\ IsSome(ret.out)
                => \E i \in MatchingStreams(ret.app_name_pattern) :
                        Unwrap(ret.out) = sink_inputs[i]

\* "Mozilla Firefox" found the stream named "Firefox": the pattern contains
\* the name, the name does not contain the pattern
C18_Witness ==
    /\ ret.op = "find_sink_input_by_name"
    /\ ret.app_name_pattern = IdMozillaFirefox
    /\ DOMAIN sink_inputs = {12}
    /\ IsSome(ret.out)
    /\ Unwrap(ret.out).application_name = IdFirefox

\* ------------------------------------------------- the discovery cycle
\* the handler's Task carries a player list for the display
DeliversPlayerList(r) ==
    /\ "task" \in DOMAIN r
    /\ \E k \in 1..Len(r.task) : r.task[k].msg = "UpdateAllPlayersInfo"

\* among the handler's controller calls a registry refresh comes before the
\* extraction
RefreshPrecedesExtraction(calls) ==
    \E i, j \in 1..Len(calls) :
        /\ i < j
        /\ calls[i] = "discover_all_players"
        /\ calls[j] = "get_all_players_info"

\* C19 (as claimed): within one discovery cycle the registry refresh precedes
\* the extraction: every player list delivered to the display, whether by a
\* timer tick, a per-player transport action or enabling show-all-players,
\* was extracted from the session map the refresh of that same cycle built.
C19_Claim == DeliversPlayerList(ret) => RefreshPrecedesExtraction(ret.calls)

IsTick(r) == r.op = "handle_find_player"

\* the identities of the sessions exposed on the bus
ExposedIdentities == {IdentityOf(b) : b \in Exposed}

\* C20 (as claimed): after a timer tick has been handled, in single-player
\* mode as well as in multi-player mode, the session map and the discovery
\* map have been rebuilt from the sessions exposed on the bus at that tick.
C20_Claim ==
    IsTick(ret)
        => /\ DOMAIN all_players = Exposed
           /\ DOMAIN discovered_players = ExposedIdentities

\* a tick in multi-player mode runs a discovery pass, which rebuilds both maps
\* from the sessions find_all returned, empties them when find_all errored and
\* leaves them when the finder could not be created; a tick in single-player
\* mode leaves both maps as they were
C20_Step ==
    IsTick(ret')
        => IF ret'.show_all_players /\ ret'.finder_ok
           THEN IF ret'.found_ok
                THEN /\ DOMAIN all_players' = Exposed
                     /\ DOMAIN discovered_players' = ExposedIdentities
                ELSE all_players' = EmptyMap /\ discovered_players' = EmptyMap
           ELSE all_players' = all_players /\ discovered_players' = discovered_players

\* C20 (amended): a timer tick performs a discovery pass in multi-player mode
\* only: there both maps are rebuilt from the sessions the enumeration
\* returned (emptied when find_all errors, left alone when the bus finder
\* cannot be created); in single-player mode a tick leaves the session map
\* and the discovery map as they were.
C20_Thm == [][C20_Step]_vars

\* a single-player tick has been handled and the maps still hold a session
\* that has left the bus, while missing one that is exposed
C20_Witness ==
    /\ IsTick(ret) /\ ~ret.show_all_players
    /\ ret.finder_ok /\ ret.found_ok
    /\ DOMAIN all_players # {}
    /\ DOMAIN all_players \cap Exposed = {}
    /\ Exposed # {}

\* ------------------------------------------------- the stored volume range
\* C26 (as claimed): every AudioSinkInput record a mixer refresh stores has a
\* volume within [0.0, 1.5], whatever percentage the listing reports.
C26_Claim ==
    \A i \in DOMAIN sink_inputs :
        sink_inputs[i].volume >= 0 /\ sink_inputs[i].volume <= MaxSinkVolume

\* ------------------------------------------------------ the panel's player
\* the handler run by the last step called find_active_player
IsFindActive(r) == r.op = "handle_find_player" /\ r.calls[1] = "find_active_player"

\* the handler run by the last step was a transport handler of the panel
IsTransport(r) == r.op \in {"handle_play_pause", "handle_next", "handle_previous"}

\* the native method a transport handler calls
MethodOf(op) ==
    CASE op = "handle_play_pause" -> "Player::play_pause"
      [] op = "handle_next" -> "Player::next"
      [] OTHER -> "Player::previous"

\* a FindPlayer that calls find_active_player keeps the selected handle when
\* the finder cannot be created or no session is active, and never leaves the
\* applet without a handle once it has one; a transport gesture is addressed
\* to the handle the applet holds, whether or not its session is on the bus
C30_Step ==
    /\ IsFindActive(ret')
        => /\ (~ret'.finder_ok \/ ~ret'.active_ok) => player' = player
           /\ IsSome(player) => IsSome(player')
    /\ (IsTransport(ret') /\ IsSome(player))
        => ret'.cmds = <<MprisCall(MethodOf(ret'.op), Unwrap(player))>>

\* C30: find_active_player never clears the selected session handle: when no
\* active session is found, or the query fails, the handle selected before is
\* kept, so with no configured selection the applet still holds, and
\* addresses, the last found session after every session has left the bus.
C30_Thm == [][C30_Step]_vars

\* with no session left on the bus, a FindPlayer has found no active session
\* and the applet still holds the handle of the session found earlier
C30_Witness ==
    /\ IsFindActive(ret) /\ ret.finder_ok /\ ~ret.active_ok
    /\ Exposed = {}
    /\ IsSome(player)


\* ------------------------------------------------- the "None" player choice
\* the settings tab marks "None (disable all players)": the configuration is
\* in single-player mode and names no selected player
NoneSelected(cm) ==
    /\ IsSome(cm)
    /\ ~GetShowAllPlayers(cm)
    /\ GetSelectedPlayer(Unwrap(cm)) = None

\* C29 (as claimed): in single-player mode, while the selected player is None,
\* no transport command the applet issues (play/pause, next, previous, from a
\* button, a panel scroll or a middle click) reaches a session.
C29_Claim ==
    [][(NoneSelected(config_manager) /\ IsTransport(ret'))
          => ~(ret'.cmds # <<>> /\ ret'.native_ok)]_vars


\* ------------------------------------------------------ the displayed state
\* the handler run by the last step was handle_volume_changed and its command
\* failed: no session selected, or set_volume returned an error
VolumeFailed(r) ==
    /\ r.op = "handle_volume_changed"
    /\ (r.handle = None \/ ~r.ok)

\* C27 (as claimed): when the volume command of the slider fails, the volume
\* displayed after the handler has run is the one displayed before the action
\* or the default volume.
C27_Claim ==
    [][VolumeFailed(ret')
          => player_info'.volume \in {player_info.volume, DefaultVolume}]_vars

\* C28: every PlayerInfo the applet holds, the single-player snapshot (the
\* default one included) and every entry of the multi-player list, has
\* can_control_volume = true.
C28_Thm ==
    /\ player_info.can_control_volume
    /\ \A k \in 1..Len(all_players_info) : all_players_info[k].can_control_volume

\* the multi-player list holds the snapshot of a session of the bus, and a
\* card's slider has just rewritten the volume of an entry
C28_Witness ==
    /\ ret.op = "handle_volume_changed_player"
    /\ Len(all_players_info) > 0
    /\ all_players_info # ret.before
    /\ player_info = PlayerInfoDefault


\* ------------------------------------------------ the applet without a store
\* the handler run by the last step handled a settings message
IsSettings(r) ==
    r.op \in {"handle_toggle_auto_detect", "handle_select_player",
              "handle_toggle_show_all_players", "handle_toggle_hide_inactive"}

\* update() can be called with every message the applet is sent
HandlesEveryMessage ==
    /\ ENABLED OnFindPlayer
    /\ ENABLED OnDiscoverPlayers
    /\ ENABLED OnToggleAutoDetect
    /\ ENABLED OnSelectPlayer
    /\ ENABLED OnToggleShowAllPlayers
    /\ ENABLED OnToggleHideInactive

\* without a ConfigManager every step leaves the applet without one; a
\* settings message changes neither the settings nor
\* the store; a FindPlayer takes the single-player branch, calls
\* find_active_player and get_player_info, and the handle it leaves is the one
\* held before or that of a session on the bus
C24_Step ==
    /\ config_manager' = None
    /\ IsSettings(ret') => config_store' = config_store
    /\ IsTick(ret')
        => /\ ret'.calls = <<"find_active_player", "get_player_info">>
           /\ ~ret'.show_all_players
           /\ player' \in {player} \cup {Some(Handle(b)) : b \in Exposed}
    /\ ret' = NoCall => HandlesEveryMessage'

\* C24: when the configuration store is unavailable at init the applet keeps
\* handling every message and behaves with the default settings throughout:
\* single-player mode, no selected player (FindPlayer selects the active
\* session), and the settings messages leave the effective settings unchanged.
C24_Thm == [][C24_Step]_vars

\* without a ConfigManager, a radio button naming a discovered player has been
\* handled while the applet holds the session a FindPlayer selected
C24_Witness ==
    /\ config_manager = None
    /\ ret.op = "handle_select_player"
    /\ IsSome(ret.selected)
    /\ IsSome(player)


\* ------------------------------------------------------- the stored settings
\* C23 (as claimed): after any sequence of setter calls, whether or not the
\* store writes succeed, the configuration held in memory equals the entry
\* held in the store.
C23_Claim == IsSome(config_manager) => config_store = config_manager


\* ------------------------------------------- two sessions of one identity
\* the environment: the session whose process plays a mixer stream.  The
\* browser's stream, #12, is played by the first browser instance; no session
\* of the bus plays the other streams
StreamSession(index) == IF index = 12 THEN <<"firefox", 1>> ELSE <<"none", 0>>

\* the session a command acts on; listing the streams acts on none
CommandSession(cmd) ==
    IF cmd.target[1] = "sink-input" THEN StreamSession(cmd.target[2]) ELSE cmd.target

ActsOnOnly(cmds, bus_name) ==
    \A k \in 1..Len(cmds) : cmds[k] = PactlList \/ CommandSession(cmds[k]) = bus_name

\* the session map holds two handles of one identity
SharedIdentity(sessions) ==
    \E a, b \in DOMAIN sessions : a # b /\ sessions[a].identity = sessions[b].identity

IsPlayerTransport(r) == r.op \in {"play_pause_player", "next_player", "previous_player"}

\* a discovery pass that enumerated files one handle under each bus name and
\* one entry under each identity, whose flag is that of an enumerated session
\* of the identity; with two handles of one identity in the session map, a
\* per-player transport call and a per-player volume call act on the session
\* filed under the bus name they are addressed to
C25_Step ==
    /\ (IsDiscover(ret') /\ ret'.finder_ok /\ ret'.found_ok)
        => /\ DOMAIN all_players' = Exposed
           /\ \A b \in Exposed : all_players'[b] = Handle(b)
           /\ DOMAIN discovered_players' = ExposedIdentities
           /\ \A b \in Exposed :
                discovered_players'[IdentityOf(b)].is_active
                    \in {bus[c] = Playing : c \in {d \in Exposed : IdentityOf(d) = IdentityOf(b)}}
    /\ (IsPlayerTransport(ret') /\ SharedIdentity(all_players))
        => ActsOnOnly(ret'.cmds, ret'.bus_name)
    /\ (ret'.op = "set_volume_player" /\ IsSome(ret'.handle) /\ SharedIdentity(all_players))
        => ActsOnOnly(ret'.cmds, Unwrap(ret'.handle).bus_name)

\* C25 (as claimed): after a discovery pass over two sessions that share an
\* identity the discovery map holds one entry for the identity and the session
\* map a handle for each bus name, and a per-player action (play/pause, next,
\* previous, volume) addressed to either bus name acts on that session and not
\* on the other.
C25_Claim == [][C25_Step]_vars


\* ---------------------------------------------------- local art files
\* the directories art may be read from: the user's cache, data, runtime,
\* music and picture directories, /tmp and /var/tmp
AllowedDirectories ==
    {<<NameHome, NameUser, NameCache>>, <<NameHome, NameUser, NameLocal, NameShare>>,
     <<NameRun, NameUser, NameUid>>, <<NameHome, NameUser, NameMusic>>,
     <<NameHome, NameUser, NamePictures>>, <<NameHome, NameUser, NameDotMusic>>,
     <<NameTmp>>, <<NameVar, NameTmp>>}

\* the path lies in an allowed directory or below it
UnderAllowed(path) ==
    \E d \in AllowedDirectories :
        Len(d) <= Len(path) /\ \A i \in 1..Len(d) : path[i] = d[i]

\* the reads among the operations of a fetch
Reads(ops) == {k \in 1..Len(ops) : ops[k].name = "read"}

\* the last call was a fetch of a file:// url
IsFileFetch(r) == r.op = "load_image_from_url" /\ StartsWith(r.url, SchemeFile)

\* C22: for a file:// art url the file's contents are read only after the
\* path has been canonicalized and only if the canonical path lies under an
\* allow-listed directory, and the path read is the canonical one; for every
\* other path the fetch gives no art and reads nothing.
C22_Thm ==
    IsFileFetch(ret)
        => /\ \A k \in Reads(ret.ops) :
                /\ k > 1
                /\ ret.ops[k - 1].name = "canonicalize"
                /\ ret.ops[k - 1].out = Some(ret.ops[k].path)
                /\ UnderAllowed(ret.ops[k].path)
           /\ \A j \in 1..Len(ret.ops) :
                (ret.ops[j].name = "canonicalize"
                    /\ ~(IsSome(ret.ops[j].out) /\ UnderAllowed(Unwrap(ret.ops[j].out))))
                => (ret.handle = None /\ Reads(ret.ops) = {})
           /\ Reads(ret.ops) = {} => ret.handle = None

\* a file:// url naming a symbolic link in /tmp to /etc/passwd has been
\* fetched: the path was canonicalized, nothing was read and no art was given
C22_Witness ==
    /\ IsFileFetch(ret)
    /\ Len(ret.ops) = 1
    /\ ret.ops[1].out = Some(<<NameEtc, NamePasswd>>)
    /\ ret.handle = None


\* ------------------------------------------------------------ the album art
\* no fetch is running and the runtime holds no request and no result
FetchesSettled ==
    /\ fetches = EmptyBag
    /\ \A m \in BagToSet(messages) : m.msg \notin {"LoadAlbumArt", "AlbumArtLoaded"}

\* C21 (as claimed): once every outstanding fetch has completed and its result
\* has been handled, in whatever order, the art displayed is the result of the
\* fetch for the current art url, and there is none when the current url is
\* none: the result of a superseded fetch has been discarded.
C21_Claim ==
    (FetchesSettled /\ IsSome(album_art_handle))
        => current_art_url = Some(Unwrap(album_art_handle).bytes_of)

\* ------------------------------------------------------- the nameless stream
\* the stored streams whose application name is empty
NamelessStreams == {i \in DOMAIN sink_inputs : sink_inputs[i].application_name = <<>>}

\* find_sink_input_by_name has run
IsLookup == ret.op = "find_sink_input_by_name"

\* C31: while a stream with an empty application name is stored,
\* find_sink_input_by_name returns a stream for every identity it is asked
\* for, and the stream it returns either carries a name related to the
\* identity or is a nameless one.
C31_Thm ==
    (IsLookup /\ NamelessStreams # {})
        => /\ IsSome(ret.out)
           /\ \/ Unwrap(ret.out).application_name = <<>>
              \/ Unwrap(ret.out).index \in MatchingStreams(ret.app_name_pattern)

\* the lookup of "Spotify" while the stored streams are the browser's (12) and
\* a nameless one (7): it resolves to the nameless stream
C31_Witness ==
    /\ IsLookup
    /\ ret.app_name_pattern = IdSpotify
    /\ DOMAIN sink_inputs = {7, 12}
    /\ sink_inputs[12].application_name = IdFirefox
    /\ NamelessStreams = {7}
    /\ ret.out = Some(sink_inputs[7])

\* ------------------------------------------------------- the cards' album art
\* the entries of a list that have an art url and the bus name b
EntriesWithArt(list, b, url) ==
    {k \in 1..Len(list) : list[k].bus_name = b /\ list[k].art_url = Some(url)}

\* the bus names and the art urls of the entries of a list
ListBusNames(list) == {list[k].bus_name : k \in 1..Len(list)}

ListArtUrls(list) == {Unwrap(list[k].art_url) : k \in {j \in 1..Len(list) : IsSome(list[j].art_url)}}

\* the step is an UpdateAllPlayersInfo, whose list is then the displayed one
IsListUpdate == ret'.op = "handle_update_all_players_info"

\* the LoadAlbumArtPlayer(b, url) requests the step adds to the runtime's
\* messages
Requested(b, url) ==
    CopiesIn(MsgLoadAlbumArtPlayer(b, url), messages')
        - CopiesIn(MsgLoadAlbumArtPlayer(b, url), messages)

\* every UpdateAllPlayersInfo requests one fetch for each entry with an art
\* url whose bus name has no stored image, fetches in flight or not, and none
\* for a bus name that has one
RequestsFollowCache ==
    IsListUpdate
        => \A b \in ListBusNames(all_players_info'), url \in ListArtUrls(all_players_info') :
              Requested(b, url) =
                  IF b \in DOMAIN player_album_arts THEN 0
                  ELSE Cardinality(EntriesWithArt(all_players_info', b, url))

\* the cache changes only by a fetch result that carries an image, which is
\* filed under the result's bus name, over what was stored there
ChangesByResultsOnly ==
    player_album_arts' # player_album_arts
        => /\ ret'.op = "handle_album_art_loaded_player"
           /\ IsSome(ret'.handle)
           /\ player_album_arts' =
                  MapInsert(player_album_arts, ret'.bus_name, Unwrap(ret'.handle))

\* an image stored for a bus name stays the one stored for it
StoredStays ==
    \A b \in DOMAIN player_album_arts :
        b \in DOMAIN player_album_arts' /\ player_album_arts'[b] = player_album_arts[b]

\* an image is never dropped from the cache
NeverDropped == DOMAIN player_album_arts \subseteq DOMAIN player_album_arts'

\* C32 (as claimed): the per-player art cache is keyed by bus name only and
\* never invalidated: no fetch is requested for a bus name that has a stored
\* image, the image stored for a bus name stays the same from then on, and
\* every UpdateAllPlayersInfo requests a fetch for each bus name with an art
\* url and no stored image, also while an earlier fetch is in flight.
C32_Step == RequestsFollowCache /\ StoredStays

C32_Claim == [][C32_Step]_vars

\* C32 (amended): no fetch is requested for a bus name that has a stored
\* image and one is requested by every UpdateAllPlayersInfo for each bus name
\* with an art url and no stored image, also while an earlier fetch is in
\* flight; a stored image is never dropped, and it is replaced only when the
\* result of a fetch for its bus name arrives with an image.
C32_ThmStep == RequestsFollowCache /\ NeverDropped /\ ChangesByResultsOnly

C32_Thm == [][C32_ThmStep]_vars

\* the list has just been updated with the session on its second track while
\* the image of the first track's cover is stored for it: nothing is requested
\* and nothing is in flight
C32_Witness ==
    /\ ret.op = "handle_update_all_players_info"
    /\ Len(all_players_info) = 1
    /\ all_players_info[1].art_url = Some(CoverOf(1))
    /\ all_players_info[1].bus_name \in DOMAIN player_album_arts
    /\ player_album_arts[all_players_info[1].bus_name] = ImageHandle(CoverOf(0))
    /\ fetches = EmptyBag
    /\ \A m \in BagToSet(messages) : m.msg \notin {"LoadAlbumArtPlayer", "AlbumArtLoadedPlayer"}

\* ------------------------------------------- the gestures in multi-player mode
\* the messages of a Task that carry a single-player snapshot
Snapshots(task) == {k \in 1..Len(task) : task[k].msg = "UpdatePlayerInfo"}

\* a tick in multi-player mode leaves the selected handle and the displayed
\* snapshot as they were and asks for no snapshot; no step made in multi-player
\* mode changes the selected handle; a gesture is addressed to the selected
\* handle, if there is one, in either mode
C33_Step ==
    /\ (IsTick(ret') /\ GetShowAllPlayers(config_manager))
        => /\ player' = player
           /\ player_info' = player_info
           /\ Snapshots(ret'.task) = {}
    /\ GetShowAllPlayers(config_manager) => player' = player
    /\ IsTransport(ret')
        => /\ player' = player
           /\ ret'.cmds = IF IsSome(player)
                          THEN <<MprisCall(MethodOf(ret'.op), Unwrap(player))>>
                          ELSE <<>>

\* C33: in multi-player mode a FindPlayer tick leaves the single-player
\* selected handle and snapshot unchanged, while the panel gestures are still
\* dispatched to that handle: after a switch to multi-player mode they act on
\* the session selected before the switch, or on nothing, whatever ticks
\* follow.
C33_Thm == [][C33_Step]_vars

\* in multi-player mode, after a tick has rebuilt the session map without the
\* session selected before the switch, a gesture on the icon has been sent to
\* that session
C33_Witness ==
    /\ GetShowAllPlayers(config_manager)
    /\ IsTransport(ret)
    /\ IsSome(player)
    /\ all_players # EmptyMap
    /\ Unwrap(player).bus_name \notin DOMAIN all_players
    /\ ret.cmds = <<MprisCall(MethodOf(ret.op), Unwrap(player))>>

\* ------------------------------------------------------ the displayed status
\* the runtime holds a follow-up of a play/pause or of a tick
FollowUpPending(pool) ==
    \E m \in BagToSet(pool) : m.msg \in {"UpdateStatus", "FindPlayer", "UpdatePlayerInfo"}

\* the status the selected session reports: Stopped when its query errors or
\* when there is no selected session
ReportedStatus(b, selected) ==
    IF IsSome(selected) THEN UnwrapOr(GetPlaybackStatus(b, Unwrap(selected)), Stopped)
    ELSE Stopped

\* C34 (as claimed): once the follow-up messages of a play/pause (UpdateStatus,
\* FindPlayer, UpdatePlayerInfo) have all been processed, in whatever order,
\* the displayed status is the status the selected session reports: when the
\* optimistic UpdateStatus is the last of them to be processed, and nothing but
\* the applet has acted on the sessions, the status it leaves displayed is the
\* reported one.
C34_Step ==
    (ret'.op = "handle_update_status" /\ ~FollowUpPending(messages'))
        => player_info'.status = ReportedStatus(bus', player')

C34_Claim == [][C34_Step]_vars

\* ------------------------------------------------- the records' own lines
\* the listing cut down to the record that starts at line k: its record-start
\* line and the lines up to the next one
OwnLines(lines, k) == <<lines[k]>> \o RecordBody(lines, k)

\* the lines ahead of the first record-start line
Preamble(lines) ==
    IF HeaderLines(lines) = {} THEN lines
    ELSE SubSeq(lines, 1, (CHOOSE k \in HeaderLines(lines) :
                               \A j \in HeaderLines(lines) : k <= j) - 1)

\* the field lines of a piece of listing
FieldLines(body) ==
    {j \in 1..Len(body) : \/ StartsWith(Trim(body[j]), AppNamePrefix)
                          \/ StartsWith(Trim(body[j]), VolumePrefix)}

\* C35: after a successful refresh_sink_inputs every stored record is the one
\* its own lines give when they are parsed alone (its record-start line up to
\* the next record-start line; empty name and volume 1.0 when they hold no
\* field), the lines ahead of the first record-start line give no record, and
\* the lines of a record whose index does not parse give no record.
C35_Thm ==
    (IsRefresh(ret) /\ ret.ok)
        => LET lines == ret.output.lines
           IN  /\ \A i \in DOMAIN sink_inputs :
                    /\ i \in ListedIndexes(lines)
                    /\ LET own == OwnLines(lines, LastRecordLine(lines, i))
                       IN  /\ sink_inputs[i] = ParseListing(own)[i]
                           /\ FieldLines(own) = {}
                                => sink_inputs[i] = AudioSinkInput(i, <<>>, 100)
               /\ ParseListing(Preamble(lines)) = EmptyMap
               /\ \A k \in HeaderLines(lines) \ RecordLines(lines) :
                    ParseListing(OwnLines(lines, k)) = EmptyMap

\* the listing with fields ahead of the first record and in a record whose
\* index does not parse was parsed: the two records stored hold the defaults
C35_Witness ==
    /\ IsRefresh(ret) /\ ret.ok
    /\ ret.output = ListingPreamble
    /\ FieldLines(Preamble(ret.output.lines)) # {}
    /\ \E k \in HeaderLines(ret.output.lines) \ RecordLines(ret.output.lines) :
            FieldLines(OwnLines(ret.output.lines, k)) # {}
    /\ DOMAIN sink_inputs = {7, 12}
    /\ sink_inputs[7] = AudioSinkInput(7, <<>>, 100)
    /\ sink_inputs[12] = AudioSinkInput(12, <<>>, 100)

\* ------------------------------------------------ the enabled-player set
\* the enabled-player set the ConfigManager holds
EnabledPlayers(cm) == IF IsSome(cm) THEN Unwrap(cm).enabled_players ELSE {}

\* auto_detect_new_players, as the ConfigManager holds it
AutoDetect(cm) == IsSome(cm) /\ Unwrap(cm).auto_detect_new_players

\* C36: the enabled-player set only grows and only under auto-detect: no
\* message removes an identity from it, it changes only in a DiscoverPlayers
\* pass made with auto_detect_new_players true, such a pass adds every
\* identity of the discovery map to it, and a pass made with the flag false
\* leaves the configuration, held and stored, as it was.
C36_Step ==
    /\ IsSome(config_manager') = IsSome(config_manager)
    /\ EnabledPlayers(config_manager) \subseteq EnabledPlayers(config_manager')
    /\ EnabledPlayers(config_manager') # EnabledPlayers(config_manager)
        => /\ ret'.op = "handle_discover_players"
           /\ AutoDetect(config_manager)
    /\ (ret'.op = "handle_discover_players" /\ IsSome(config_manager))
        => IF AutoDetect(config_manager)
           THEN /\ EnabledPlayers(config_manager')
                    = EnabledPlayers(config_manager) \cup DOMAIN discovered_players'
                /\ Unwrap(config_manager')
                    = [Unwrap(config_manager) EXCEPT
                           !.enabled_players = EnabledPlayers(config_manager')]
           ELSE /\ config_manager' = config_manager
                /\ config_store' = config_store

C36_Thm == [][C36_Step]_vars

\* a pass with auto-detect on that found two sessions and whose last save
\* failed: both identities are in the set held, not in the stored one
C36_Witness ==
    /\ ret.op = "handle_discover_players"
    /\ AutoDetect(config_manager)
    /\ Cardinality(DOMAIN discovered_players) = 2
    /\ EnabledPlayers(config_manager) = DOMAIN discovered_players
    /\ EnabledPlayers(config_store) # EnabledPlayers(config_manager)

\* ------------------------------------------------------ the card's texts
\* the number of characters of a UTF-8 string
CharCount(s) == Cardinality({k \in 1..Len(s) : ~IsContinuation(s[k])})

\* the first n characters of a UTF-8 string that has more than n
FirstChars(s, n) ==
    LET starts == {k \in 1..Len(s) : ~IsContinuation(s[k])}
        next == CHOOSE k \in starts : Cardinality({j \in starts : j < k}) = n
    IN  SubSeq(s, 1, next - 1)

\* a text cut to 25 characters
Shown(s) ==
    IF CharCount(s) <= MaxLength THEN s ELSE FirstChars(s, MaxLength) \o <<46, 46, 46>>

\* C37 (as claimed): rendering a player card completes, whatever the title and
\* the artist, and shows each of them unchanged when it has at most 25
\* characters and as its first 25 characters followed by "..." otherwise.
C37_Claim ==
    ret.op = "view_player_card"
        => /\ ret.ok
           /\ ret.title = Shown(ret.card.title)
           /\ ret.artist = Shown(ret.card.artist)

====
